---- MODULE Spec2Model ----
(***************************************************************************)
(* The link-card enrichment plugin: the plugin object (main.ts), its       *)
(* canvas monitor and canvas transformer (canvas/transformer.ts), the note *)
(* generator (note-generator) and the vault they work on.                  *)
(*                                                                         *)
(* Scheduling is JavaScript's: one thread, and an async function runs      *)
(* without interruption from one await to the next.  Every action below is *)
(* one such run: the code from a resumption (or a call) to the next        *)
(* suspension on a collaborator (vault read/write/create, network,         *)
(* saveData), with every synchronous call it makes on the way.             *)
(***************************************************************************)
EXTENDS Naturals, Sequences, FiniteSets, TLC

\* ------------------------------------------------------------------ bounds
\* Slots for enrichLinkNode invocations that have been made and whose
\* result the caller has not yet dropped.
MaxCalls == 2
\* Nodes in one canvas document.
MaxNodes == 2
\* checkForNewLinks invocations suspended on vault.read, per document.
MaxScans == 2
\* Event references the vault hands out for 'modify' subscriptions.
MaxRefs == 2
\* saveSettings invocations suspended on saveData.
MaxSaves == 1
\* Characters in the text of a generation backend's answer.
MaxText == 3

\* ---------------------------------------------------------------- universe
NULL == "null"
\* Of a string or null: neither null nor the empty string.
Truthy(value) == value # NULL /\ value # ""

Docs == {"a.canvas", "b.canvas"}
Ids == {"n1", "n2"}
ValidUrl == "https://example.com"
InvalidUrl == "not a url"
Urls == {ValidUrl, InvalidUrl}
UserFiles == {"note.md"}
\* What Date.now() returns while a note path is chosen.
Timestamps == {1}

\* What `new URL(url).protocol` gives for the URLs of the model; "throws"
\* when the constructor throws.
UrlProtocol(url) ==
  CASE url = "https://example.com" -> "https:"
    [] url = "http://example.org" -> "http:"
    [] url = "ftp://example.com/f" -> "ftp:"
    [] OTHER -> "throws"

AnyUrl(url) == TRUE
isValidUrl(url) ==
  LET protocol == UrlProtocol(url)
  IN IF protocol = "throws" THEN FALSE
     ELSE protocol = "http:" \/ protocol = "https:"

\* ------------------------------------------------------- canvas documents
\* A node of the canvas (types.ts CanvasNode): link and file variants.  A
\* text node is to every piece of code here what a file node is (not a
\* link), so the document model carries the two.
\* Every node has CanvasNodeData's id, x, y, width, height and the optional
\* color (NULL when the field is absent).
Box(x, y, width, height) == [x |-> x, y |-> y, width |-> width, height |-> height]
DefaultBox == Box(0, 0, 400, 400)
Boxes == {DefaultBox, Box(120, 60, 250, 60)}
\* No color field, an empty string, a preset color.
Colors == {NULL, "", "1"}

LinkCard(id, url, box, color) ==
  [id |-> id, type |-> "link", url |-> url, x |-> box.x, y |-> box.y,
   width |-> box.width, height |-> box.height, color |-> color]
FileCard(id, file, box, color) ==
  [id |-> id, type |-> "file", file |-> file, x |-> box.x, y |-> box.y,
   width |-> box.width, height |-> box.height, color |-> color]
LinkNode(id, url) == LinkCard(id, url, DefaultBox, NULL)
FileNode(id, file) == FileCard(id, file, DefaultBox, NULL)

\* An edge (types.ts CanvasEdgeData): its id and its two endpoints.
Edge(id, fromNode, toNode) == [id |-> id, fromNode |-> fromNode, toNode |-> toNode]

NodesOver(urls) ==
  {LinkNode(i, u) : i \in Ids, u \in urls} \cup {FileNode(i, f) : i \in Ids, f \in UserFiles}

\* Node lists with pairwise different ids (the canvas editor gives every node
\* a fresh id), of at most MaxNodes nodes.
NodeLists(urls) ==
  {<<>>} \cup
  UNION {{s \in [1..n -> NodesOver(urls)] :
            \A i, j \in 1..n : i # j => s[i].id # s[j].id} :
         n \in 1..(IF MaxNodes < Cardinality(Ids) THEN MaxNodes ELSE Cardinality(Ids))}

\* The text of a .canvas file: JSON of a CanvasData, or something JSON.parse
\* throws on.
CanvasData(nodes, edges) == [ok |-> TRUE, nodes |-> nodes, edges |-> edges]
Content(nodes) == CanvasData(nodes, <<>>)
Malformed == [ok |-> FALSE, nodes |-> <<>>, edges |-> <<>>]
Contents(urls) == {Content(s) : s \in NodeLists(urls)} \cup {Malformed}

VARIABLES
  canvas,               \* the vault's .canvas files: path -> content
  notes,                \* the vault's note files (paths)
  noteText,             \* the content of the notes created: path -> markdown
  folderExists,         \* the notes folder is in the vault
  phase,                \* the plugin: "constructed", "loaded", "unloaded"
  activeView,           \* the canvas file of the workspace's active view (NULL: no canvas view)
  aiProvider,           \* the plugin's aiProvider: the generation backend (NULL before onload)
  settings,             \* DetailedCanvasPlugin.settings
  saves,                \* saveSettings invocations suspended on saveData
  batch,                \* the running enrichSelectedLinks / enrichAllLinksInCanvas
  modifyHandler,        \* CanvasMonitor.modifyHandler (0 is null)
  handlers,             \* the vault's live 'modify' subscriptions (refs)
  seenNodes,            \* CanvasMonitor.seenNodes
  initializedCanvases,  \* CanvasMonitor.initializedCanvases
  scans,                \* checkForNewLinks suspended on vault.read, per path
  processingNodes,      \* DetailedCanvasPlugin.processingNodes
  calls,                \* enrichLinkNode invocations, by slot
  emitted,              \* history: onNewLinkNode calls of the latest scan
  scanOk,               \* history: the latest scan reached its end
  reported,             \* history: ids ever passed to onNewLinkNode, per path
  lastReplace,          \* history: the latest replaceLinkWithFile call and its result
  generated,            \* history: the latest generate call and its outcome
  probed,               \* history: the latest getModels / checkConnection call
  scraped               \* history: the latest ScraperService.scrape call

vars == <<canvas, notes, noteText, folderExists, phase, settings, aiProvider, activeView, saves, batch,
          modifyHandler,
          handlers, seenNodes, initializedCanvases, scans, processingNodes,
          calls, emitted, scanOk, reported, lastReplace, generated, probed, scraped>>

vaultVars == <<canvas, notes, noteText, folderExists>>
pluginVars == <<phase, settings, aiProvider, activeView, saves, batch>>
monitorVars == <<modifyHandler, handlers, seenNodes, initializedCanvases>>
historyVars == <<emitted, scanOk, reported, lastReplace, generated, probed, scraped>>

Min(a, b) == IF a < b THEN a ELSE b

\* The vault fires 'modify' for a written file: every live subscription of
\* the monitor calls checkForNewLinks, which suspends on vault.read.
Notify(path) ==
  [scans EXCEPT ![path] = Min(@ + Cardinality(handlers), MaxScans)]

\* ------------------------------------------------------------- enrichment
\* main.ts:141, the processingNodes key of a call.
NodeKey(path, id) == path \o ":" \o id

\* What scrape() resolves to: a UrlMetadata, never null (every failure inside
\* it becomes createEmptyMetadata).  Of the record, the fields the pipeline
\* reads.
Metadata(title, description) == [title |-> title, description |-> description]
EmptyMetadata == Metadata(NULL, NULL)
FullMetadata == Metadata("Example", "A page.")
ScrapeResults == {EmptyMetadata, FullMetadata}

\* What requestUrl gives scrape(): a response with status 200, one with
\* another status, or a rejection (transport failure).
Responses == {"200", "404", "throws"}

\* scraper.ts:13-62 scrape(): every status but 200 and every throw inside it
\* ends in createEmptyMetadata(url) (scraper.ts:321-331); nothing is thrown to
\* the caller.
createEmptyMetadata == EmptyMetadata
scrape(response) == IF response = "200" THEN FullMetadata ELSE createEmptyMetadata

GeneratedText == "A summary."
Placeholder == "No description available."

NoResult == [success |-> FALSE, notePath |-> NULL, error |-> NULL]
Success(notePath) == [success |-> TRUE, notePath |-> notePath, error |-> NULL]
Failure(error) == [success |-> FALSE, notePath |-> NULL, error |-> error]

\* The backend object and the instruction prompt of a generate call.
NoGenerator == [provider |-> NULL, prompt |-> NULL]
Generator == [provider |-> aiProvider, prompt |-> settings.descriptionPrompt]

\* A call's record: configured is the plugin's backend and prompt when
\* enrichLinkNode was called, used is the backend generate was called on and
\* the prompt it was given.
IdleCall ==
  [pc |-> "idle", path |-> NULL, id |-> NULL, url |-> NULL, accepted |-> FALSE,
   metadata |-> EmptyMetadata, aiDescription |-> NULL, notePath |-> NULL,
   configured |-> NoGenerator, used |-> NoGenerator,
   result |-> NoResult]

\* A call that has returned: its arguments and its EnrichmentResult.
Returned(call, accepted, result) ==
  [IdleCall EXCEPT !.pc = "done", !.path = call.path, !.id = call.id,
                   !.url = call.url, !.accepted = accepted, !.result = result]

InPipeline(call) == call.pc \notin {"idle", "done"}

HasFree(cs) == \E c \in 1..MaxCalls : cs[c].pc = "idle"
FreeSlot(cs) ==
  CHOOSE c \in 1..MaxCalls :
    cs[c].pc = "idle" /\ \A b \in 1..MaxCalls : b < c => cs[b].pc # "idle"

\* main.ts:144, the membership test of the guard.
AlwaysFresh(pn, nodeKey) == FALSE
AlreadyProcessing(pn, nodeKey) == nodeKey \in pn

\* main.ts:144-146: the guard's return is outside the try/finally, so the set
\* is what it was.
RejectReleases(pn, nodeKey) == pn \ {nodeKey}
GuardReject(pn, nodeKey) == pn

\* main.ts:140-156, enrichLinkNode from its call to its first suspension (the
\* await on scrape), as a function of the set and the call table.
enrichLinkNode(st, path, node) ==
  LET nodeKey == NodeKey(path, node.id)
      c == FreeSlot(st.cs)
      args == [IdleCall EXCEPT !.path = path, !.id = node.id, !.url = node.url]
  IN IF AlreadyProcessing(st.pn, nodeKey)
     THEN [pn |-> GuardReject(st.pn, nodeKey),
           cs |-> [st.cs EXCEPT ![c] = Returned(args, FALSE, Failure("Already processing"))]]
     ELSE [pn |-> st.pn \cup {nodeKey},
           cs |-> [st.cs EXCEPT ![c] = [args EXCEPT !.pc = "scrape", !.accepted = TRUE,
                                                    !.configured = Generator]]]

\* main.ts:197-209: the catch block builds the failure result, the finally
\* block deletes the key on every path out of the try.
ReturnKeepsKeyOnFailure(c, result) ==
  /\ calls' = [calls EXCEPT ![c] = Returned(calls[c], TRUE, result)]
  /\ processingNodes' =
       IF result.success
       THEN processingNodes \ {NodeKey(calls[c].path, calls[c].id)}
       ELSE processingNodes
Return(c, result) ==
  /\ calls' = [calls EXCEPT ![c] = Returned(calls[c], TRUE, result)]
  /\ processingNodes' = processingNodes \ {NodeKey(calls[c].path, calls[c].id)}

\* main.ts:94-99, the node menu's item: enrichLinkNode on the active canvas
\* file with the node data of the view (which need not be saved yet).
MenuEnrich(path, node) ==
  /\ phase = "loaded"
  /\ node.type = "link" /\ isValidUrl(node.url)
  /\ HasFree(calls)
  /\ LET st == enrichLinkNode([pn |-> processingNodes, cs |-> calls], path, node)
     IN processingNodes' = st.pn /\ calls' = st.cs
  /\ UNCHANGED <<vaultVars, pluginVars, monitorVars, scans, historyVars>>

\* main.ts:156-167: scrape has resolved; generate is called.
ScrapeSkipsGenerate(c, metadata) ==
  /\ calls[c].pc = "scrape"
  /\ calls' = [calls EXCEPT ![c].pc = "replace", ![c].metadata = metadata,
                            ![c].notePath = "Canvas Notes/Example.md"]
  /\ UNCHANGED <<processingNodes, vaultVars, pluginVars, monitorVars, scans, historyVars>>
ScrapeReturn(c, metadata) ==
  /\ calls[c].pc = "scrape"
  /\ calls' = [calls EXCEPT ![c].pc = "generate", ![c].metadata = metadata,
                            ![c].used = Generator]
  /\ UNCHANGED <<processingNodes, vaultVars, pluginVars, monitorVars, scans, historyVars>>

\* note-generator ensureFolder (part_002:87-97), from createEnrichedNote's
\* call to its suspension: createFolder is called when the folder is absent.
EnsureFolderPc == IF folderExists THEN "folderReady" ELSE "createFolder"

\* main.ts:164-178: generate has resolved (thrown = FALSE) or rejected; the
\* note generator is called and suspends in ensureFolder.
\* main.ts:170, the text used when generate has thrown.
FallbackEmpty(metadata) == ""
Fallback(metadata) ==
  IF metadata.description # NULL /\ metadata.description # ""
  THEN metadata.description
  ELSE Placeholder

GenerateReturn(c, thrown) ==
  /\ calls[c].pc = "generate"
  /\ LET aiDescription == IF ~thrown THEN GeneratedText ELSE Fallback(calls[c].metadata)
     IN calls' = [calls EXCEPT ![c].pc = EnsureFolderPc,
                               ![c].aiDescription = aiDescription]
  /\ UNCHANGED <<processingNodes, vaultVars, pluginVars, monitorVars, scans, historyVars>>

\* vault.createFolder has finished: it throws when the folder is there by
\* now (or on an I/O error), and createEnrichedNote's rejection reaches
\* enrichLinkNode's catch.
CreateFolderReturn(c, io) ==
  /\ calls[c].pc = "createFolder"
  /\ IF folderExists \/ ~io
     THEN /\ Return(c, Failure("Folder already exists."))
          /\ UNCHANGED folderExists
     ELSE /\ folderExists' = TRUE
          /\ calls' = [calls EXCEPT ![c].pc = "folderReady"]
          /\ UNCHANGED processingNodes
  /\ UNCHANGED <<canvas, notes, noteText, pluginVars, monitorVars, scans, historyVars>>

\* part_002:68-82 sanitizeFileName on the titles of ScrapeResults (no
\* character to replace, nothing to trim).
sanitizeFileName(name) == name

\* part_002:102-118 getUniqueFilePath; timestamp is Date.now().
getUniqueFilePath(folder, baseName, timestamp) ==
  LET filePath == folder \o "/" \o baseName \o ".md"
  IN IF filePath \in notes
     THEN folder \o "/" \o baseName \o "-" \o ToString(timestamp) \o ".md"
     ELSE filePath

\* part_002:23-32: the path is chosen and vault.create is called.
PickPath(c, timestamp) ==
  /\ calls[c].pc = "folderReady"
  /\ LET title == calls[c].metadata.title
         baseName == sanitizeFileName(IF title # NULL THEN title ELSE "Untitled")
     IN calls' = [calls EXCEPT
                    ![c].pc = "create",
                    ![c].notePath = getUniqueFilePath(settings.notesFolder, baseName, timestamp)]
  /\ UNCHANGED <<processingNodes, vaultVars, pluginVars, monitorVars, scans, historyVars>>

\* part_002:40-63 generateMarkdown: of the note's text, the title line and the
\* description paragraph.
generateMarkdown(metadata, description) ==
  [title |-> IF metadata.title # NULL THEN metadata.title ELSE "Untitled",
   description |-> description]

\* vault.create has finished: it throws when the path exists (or on an I/O
\* error); otherwise the note is in the vault and replaceLinkWithFile is
\* called, which suspends on vault.process (main.ts:174-185).
CreateReturn(c, io) ==
  /\ calls[c].pc = "create"
  /\ IF calls[c].notePath \in notes \/ ~io
     THEN /\ Return(c, Failure("File already exists."))
          /\ UNCHANGED <<notes, noteText>>
     ELSE /\ notes' = notes \cup {calls[c].notePath}
          /\ noteText' = [p \in notes' |->
                            IF p = calls[c].notePath
                            THEN generateMarkdown(calls[c].metadata, calls[c].aiDescription)
                            ELSE noteText[p]]
          /\ calls' = [calls EXCEPT ![c].pc = "replace"]
          /\ UNCHANGED processingNodes
  /\ UNCHANGED <<canvas, folderExists, pluginVars, monitorVars, scans, historyVars>>

\* transformer.ts:17-19, Array.findIndex by id; 0 stands for -1.
findIndex(nodes, id) ==
  IF \E i \in 1..Len(nodes) : nodes[i].id = id
  THEN CHOOSE i \in 1..Len(nodes) :
         nodes[i].id = id /\ \A j \in 1..Len(nodes) : j < i => nodes[j].id # id
  ELSE 0

\* transformer.ts:27, the type test on the node found.
AnyNode(node) == TRUE
IsLinkNode(node) == node.type = "link"

\* transformer.ts:33-46, the file node built from the link node: id, x, y,
\* width and height are copied, color when it is truthy (present and not
\* the empty string).
FileNodeAtDefault(linkNode, notePath) == FileCard(linkNode.id, notePath, DefaultBox, NULL)
FileNodeOf(linkNode, notePath) ==
  [id |-> linkNode.id, type |-> "file", file |-> notePath,
   x |-> linkNode.x, y |-> linkNode.y,
   width |-> linkNode.width, height |-> linkNode.height,
   color |-> IF linkNode.color # NULL /\ linkNode.color # "" THEN linkNode.color ELSE NULL]

\* transformer.ts:13-53, the function replaceLinkWithFile hands to
\* vault.process: the new content, or threw when JSON.parse throws.
ReplaceFn(content, linkNodeId, notePath) ==
  IF ~content.ok THEN [threw |-> TRUE, content |-> content]
  ELSE LET nodeIndex == findIndex(content.nodes, linkNodeId)
       IN IF nodeIndex = 0 THEN [threw |-> FALSE, content |-> content]
          ELSE IF ~IsLinkNode(content.nodes[nodeIndex])
               THEN [threw |-> FALSE, content |-> content]
               ELSE [threw |-> FALSE,
                     content |-> [content EXCEPT
                                    !.nodes[nodeIndex] = FileNodeOf(content.nodes[nodeIndex], notePath)]]

\* transformer.ts:7-60 replaceLinkWithFile on a file of the given content:
\* what it returns and the content the file has afterwards.  vault.process is
\* the vault's atomic read-modify-write; a throw inside it (I/O, JSON.parse)
\* is caught and makes the function return false.
replaceLinkWithFile(content, linkNodeId, notePath, io) ==
  LET r == ReplaceFn(content, linkNodeId, notePath)
  IN IF r.threw \/ ~io
     THEN [returned |-> FALSE, content |-> content]
     ELSE [returned |-> TRUE, content |-> r.content]

\* The vault's side of a replaceLinkWithFile: a content that changed is
\* written and the vault fires 'modify'.
ProcessCanvas(path, r) ==
  /\ canvas' = [canvas EXCEPT ![path] = r.content]
  /\ scans' = IF r.content # canvas[path] THEN Notify(path) ELSE scans

\* vault.process has finished and replaceLinkWithFile has returned to
\* enrichLinkNode (main.ts:181-195).
ReplaceReturn(c, io) ==
  /\ calls[c].pc = "replace"
  /\ LET path == calls[c].path
         r == replaceLinkWithFile(canvas[path], calls[c].id, calls[c].notePath, io)
     IN /\ ProcessCanvas(path, r)
        /\ IF r.returned
           THEN Return(c, Success(calls[c].notePath))
           ELSE Return(c, Failure("Failed to update canvas"))
  /\ UNCHANGED <<notes, noteText, folderExists, pluginVars, monitorVars, historyVars>>

\* A replaceLinkWithFile call on its own, from its call to its return, with
\* the record of what was asked and what came back.
NoReplace == [id |-> NULL, returned |-> FALSE]
ReplaceLinkWithFile(path, linkNodeId, notePath, io) ==
  /\ phase = "loaded"
  /\ LET r == replaceLinkWithFile(canvas[path], linkNodeId, notePath, io)
     IN /\ ProcessCanvas(path, r)
        /\ lastReplace' = [id |-> linkNodeId, returned |-> r.returned]
  /\ UNCHANGED <<notes, noteText, folderExists, pluginVars, monitorVars,
                 processingNodes, calls, emitted, scanOk, reported, generated,
                 probed, scraped>>

\* The caller has dropped the EnrichmentResult (every caller ignores it).
Forget(c) ==
  /\ calls[c].pc = "done"
  /\ calls' = [calls EXCEPT ![c] = IdleCall]
  /\ UNCHANGED <<processingNodes, vaultVars, pluginVars, monitorVars, scans, historyVars>>

\* ------------------------------------------------ the rewrite-in-place policy
\* The plugin's other enrichLinkNode (openai-provider.ts:517-583) is the same
\* up to the generation; it then composes a card text and sets it on the node
\* of the active canvas view, with no note and no replaceLinkWithFile.

\* `new URL(node.url).hostname` for the URLs of the cards.
CardHostname(url) == IF url = ValidUrl THEN "example.com" ELSE "throws"

\* openai-provider.ts:548-552: of the card text, the title (metadata.title or
\* the hostname), the link's URL and the description, which is the text's
\* first maxDescriptionLength characters (the texts here are shorter).
CardText(metadata, url, aiDescription) ==
  [title |-> IF Truthy(metadata.title) THEN metadata.title ELSE CardHostname(url),
   url |-> url, desc |-> aiDescription]

\* A canvas node after setText.
SetText(node, newText) ==
  [f \in DOMAIN node \cup {"text"} |-> IF f = "text" THEN newText ELSE node[f]]

\* openai-provider.ts:586-613 updateCanvasNodeText(nodeId, newText) on the
\* canvas of the active view, which is taken to hold what its file holds
\* (setText and requestSave together are a write of the file).  view is NULL
\* when no canvas view is active; hasSetText tells whether the node object of
\* the internal API has a setText method.  canvas.nodes.get(nodeId) is the
\* node of that id, if any (index 0: none).  The result is the content of the
\* view afterwards and the value returned.
updateCanvasNodeText(view, nodeId, newText, hasSetText) ==
  IF view = NULL \/ ~canvas[view].ok THEN [content |-> NULL, returned |-> FALSE]
  ELSE LET nodes == canvas[view].nodes
           i == findIndex(nodes, nodeId)
       IN IF i = 0 THEN [content |-> canvas[view], returned |-> FALSE]
          ELSE [content |-> IF hasSetText
                            THEN [canvas[view] EXCEPT !.nodes[i] = SetText(@, newText)]
                            ELSE canvas[view],
                returned |-> TRUE]

\* openai-provider.ts:538-582: the generation has returned or thrown; the card
\* text is composed, updateCanvasNodeText runs and the call returns.
RewriteInPlace(c, thrown, hasSetText) ==
  /\ calls[c].pc = "generate"
  /\ LET aiDescription == IF ~thrown THEN GeneratedText ELSE Fallback(calls[c].metadata)
         cardText == CardText(calls[c].metadata, calls[c].url, aiDescription)
         r == updateCanvasNodeText(activeView, calls[c].id, cardText, hasSetText)
     IN /\ IF CardHostname(calls[c].url) = "throws"
           THEN /\ Return(c, Failure("Invalid URL"))
                /\ UNCHANGED <<canvas, scans>>
           ELSE /\ IF r.returned
                   THEN Return(c, [success |-> TRUE, notePath |-> NULL, error |-> NULL])
                   ELSE Return(c, Failure("Failed to update canvas node"))
                /\ IF r.returned /\ hasSetText
                   THEN canvas' = [canvas EXCEPT ![activeView] = r.content]
                   ELSE UNCHANGED canvas
                /\ scans' = IF r.returned THEN Notify(activeView) ELSE scans
  /\ UNCHANGED <<notes, noteText, folderExists, pluginVars, monitorVars, historyVars>>

\* The user opens a canvas in the active pane, or leaves the canvas views.
OpenView(path) ==
  /\ activeView' = path
  /\ UNCHANGED <<phase, settings, aiProvider, saves, batch, vaultVars, monitorVars, scans,
                 processingNodes, calls, historyVars>>

\* openai-provider.ts:451-476, the node menu's item of this policy: the call
\* is for the file of the active view.
MenuEnrichActive(node) ==
  /\ activeView # NULL
  /\ canvas[activeView].ok
  /\ \E i \in 1..Len(canvas[activeView].nodes) : canvas[activeView].nodes[i] = node
  /\ MenuEnrich(activeView, node)

\* ------------------------------------------------- the generation backends
\* A text is a sequence of characters, blank or not.
Chars == {" ", "a"}
Texts == UNION {[1..n -> Chars] : n \in 0..MaxText}

\* String.prototype.trim.
RECURSIVE TrimStart(_)
TrimStart(text) ==
  IF text # <<>> /\ Head(text) = " " THEN TrimStart(Tail(text)) ELSE text
RECURSIVE TrimEnd(_)
TrimEnd(text) ==
  IF text # <<>> /\ text[Len(text)] = " "
  THEN TrimEnd(SubSeq(text, 1, Len(text) - 1))
  ELSE text
Trim(text) == TrimEnd(TrimStart(text))

Providers == {"ollama", "openai", "claude"}

\* What requestUrl gives generate(): a rejection (transport failure), or a
\* response with a status and a body.  The body is not JSON ("nojson"), JSON
\* without the payload field ("missing": no response / choices / content),
\* with an empty list of choices or content blocks ("nolist"), with a first
\* choice without content or with no text block ("notext"), or with a text.
Bodies(provider) ==
  {[kind |-> "nojson"], [kind |-> "missing"]}
    \cup (IF provider = "ollama" THEN {} ELSE {[kind |-> "nolist"], [kind |-> "notext"]})
    \cup {[kind |-> "text", text |-> t] : t \in Texts}
ApiResponses(provider) ==
  {[received |-> FALSE]}
    \cup {[received |-> TRUE, status |-> s, body |-> b] : s \in {200, 500}, b \in Bodies(provider)}

Threw == [threw |-> TRUE]
Text(text) == [threw |-> FALSE, text |-> text]

\* ollama.ts:33-78 OllamaClient.generate after requestUrl: everything thrown
\* in the try is thrown again by the catch.
OllamaGenerate(response) ==
  IF ~response.received THEN Threw
  ELSE IF response.status # 200 THEN Threw
  ELSE IF response.body.kind # "text" THEN Threw
  ELSE IF response.body.text = <<>> THEN Threw
  ELSE Text(Trim(response.body.text))

\* openai-provider.ts:12-49 OpenAICompatibleProvider.generate after
\* requestUrl; a content that is not a string makes .trim() throw.
OpenAIGenerate(response) ==
  IF ~response.received THEN Threw
  ELSE IF response.status # 200 THEN Threw
  ELSE IF response.body.kind \in {"nojson", "missing", "nolist", "notext"} THEN Threw
  ELSE Text(Trim(response.body.text))

\* part_000:87-128 ClaudeProvider.generate after requestUrl.
ClaudeGenerate(response) ==
  IF ~response.received THEN Threw
  ELSE IF response.status # 200 THEN Threw
  ELSE IF response.body.kind \in {"nojson", "missing", "nolist"} THEN Threw
  ELSE IF response.body.kind = "notext" THEN Threw
  ELSE Text(Trim(response.body.text))

generate(provider, response) ==
  CASE provider = "ollama" -> OllamaGenerate(response)
    [] provider = "openai" -> OpenAIGenerate(response)
    [] provider = "claude" -> ClaudeGenerate(response)

\* A generate call of a backend, from the response of requestUrl to its
\* return or throw, with the record of it.
NoGeneration == [provider |-> NULL]
Generate(provider, response) ==
  /\ generated' = [provider |-> provider, response |-> response,
                   outcome |-> generate(provider, response)]
  /\ UNCHANGED <<vaultVars, pluginVars, monitorVars, scans, processingNodes, calls,
                 emitted, scanOk, reported, lastReplace, probed, scraped>>

\* ------------------------------------------- the backends' other methods
\* The model identifier a backend is constructed with (part_001:23-51), and
\* the entries of the list a models endpoint answers with: an entry with a
\* name / id, or null.
Models == {"m1", "m2"}
ModelEntries == {"m1", "m3", NULL}
MaxModels == 2
ModelLists == UNION {[1..n -> ModelEntries] : n \in 0..MaxModels}

\* part_000:22-28.
CLAUDE_MODELS ==
  <<"claude-3-haiku-20240307", "claude-3-5-haiku-20241022", "claude-3-5-sonnet-20241022",
    "claude-3-5-sonnet-20240620", "claude-sonnet-4-20250514">>

\* What requestUrl gives getModels() and checkConnection(): a rejection, or a
\* response with a status and a body that is not JSON ("nojson"), JSON whose
\* models / data field is absent or no array ("missing"), or JSON with a list.
ModelBodies ==
  {[kind |-> "nojson"], [kind |-> "missing"]}
    \cup {[kind |-> "list", list |-> l] : l \in ModelLists}
ProbeResponses ==
  {[received |-> FALSE]}
    \cup {[received |-> TRUE, status |-> s, body |-> b] : s \in {200, 500}, b \in ModelBodies}

Listed(models) == [threw |-> FALSE, models |-> models]

\* ollama.ts:104-131 OllamaClient.getModels after requestUrl: the catch
\* throws a new Error for everything thrown in the try (reading .name of a
\* null entry included).
OllamaGetModels(model, response) ==
  IF ~response.received THEN Threw
  ELSE IF response.status # 200 THEN Threw
  ELSE IF response.body.kind # "list" THEN Threw
  ELSE IF \E i \in DOMAIN response.body.list : response.body.list[i] = NULL THEN Threw
  ELSE Listed(response.body.list)

\* openai-provider.ts:69-95 OpenAICompatibleProvider.getModels after
\* requestUrl: every failure returns [this.model].
OpenAIGetModels(model, response) ==
  IF ~response.received THEN Listed(<<model>>)
  ELSE IF response.status # 200 THEN Listed(<<model>>)
  ELSE IF response.body.kind # "list" THEN Listed(<<model>>)
  ELSE IF \E i \in DOMAIN response.body.list : response.body.list[i] = NULL
  THEN Listed(<<model>>)
  ELSE Listed(response.body.list)

\* part_000:159-162 ClaudeProvider.getModels: no request is made.
ClaudeGetModels(model, response) == Listed(CLAUDE_MODELS)

getModels(provider, model, response) ==
  CASE provider = "ollama" -> OllamaGetModels(model, response)
    [] provider = "openai" -> OpenAIGetModels(model, response)
    [] provider = "claude" -> ClaudeGetModels(model, response)

\* ollama.ts:84-97, openai-provider.ts:51-67, part_000:130-157: the probe
\* request's status is compared with 200; the catch returns false.
AnyAnswer(response) == response.received
OllamaCheckConnection(response) == response.received /\ response.status = 200
OpenAICheckConnection(response) == response.received /\ response.status = 200
ClaudeCheckConnection(response) == response.received /\ response.status = 200

checkConnection(provider, response) ==
  CASE provider = "ollama" -> OllamaCheckConnection(response)
    [] provider = "openai" -> OpenAICheckConnection(response)
    [] provider = "claude" -> ClaudeCheckConnection(response)

\* A getModels or checkConnection call of a backend, from the response of
\* requestUrl to its return or throw, with the record of it.
NoProbe == [fn |-> NULL]
GetModels(provider, model, response) ==
  /\ probed' = [fn |-> "getModels", provider |-> provider, model |-> model,
                response |-> response, outcome |-> getModels(provider, model, response)]
  /\ UNCHANGED <<vaultVars, pluginVars, monitorVars, scans, processingNodes, calls,
                 emitted, scanOk, reported, lastReplace, generated, scraped>>
CheckConnection(provider, response) ==
  /\ probed' = [fn |-> "checkConnection", provider |-> provider, response |-> response,
                outcome |-> [threw |-> FALSE,
                             connected |-> checkConnection(provider, response)]]
  /\ UNCHANGED <<vaultVars, pluginVars, monitorVars, scans, processingNodes, calls,
                 emitted, scanOk, reported, lastReplace, generated, scraped>>

\* ------------------------------------------------------------ the scraper
\* The URLs scrape() is called with: a page, a post of the social network, a
\* URL of the social network that is no post, and no URL at all.
PageUrl == "https://example.com/a"
TweetUrl == "https://x.com/user/status/1"
ProfileUrl == "https://x.com/user"
ScrapeUrls == {PageUrl, TweetUrl, ProfileUrl, InvalidUrl}

\* scraper.ts:16 `new URL(url).hostname.toLowerCase()` on these; "throws"
\* when the constructor throws.
Hostname(url) ==
  CASE url = PageUrl -> "example.com"
    [] url \in {TweetUrl, ProfileUrl} -> "x.com"
    [] OTHER -> "throws"
\* scraper.ts:38 `new URL(url).origin`.
Origin(url) == "https://example.com"
TWITTER_HOSTS == {"twitter.com", "www.twitter.com", "x.com", "www.x.com"}
\* scraper.ts:68 `originalUrl.match(TWITTER_STATUS_RE)` and the screen name
\* it captures.
StatusMatch(url) == url = TweetUrl
ScreenName(url) == "user"

\* A text is a sequence of runs: n >= 1 copies of a character, no two
\* adjacent runs of the same character.
Run(ch, n) == [ch |-> ch, n |-> n]
IsSpace(ch) == ch \in {" ", "\n"}
\* String concatenation.
Concat(a, b) ==
  IF a = <<>> THEN b
  ELSE IF b = <<>> THEN a
  ELSE IF a[Len(a)].ch = Head(b).ch
  THEN SubSeq(a, 1, Len(a) - 1) \o <<Run(Head(b).ch, a[Len(a)].n + Head(b).n)>> \o Tail(b)
  ELSE a \o b
\* String.prototype.length.
RECURSIVE TextLength(_)
TextLength(text) == IF text = <<>> THEN 0 ELSE Head(text).n + TextLength(Tail(text))
\* scraper.ts:241 `.replace(/\s+/g, ' ')`: every maximal stretch of whitespace
\* becomes one space.
RECURSIVE CollapseWhitespace(_)
CollapseWhitespace(text) ==
  IF text = <<>> THEN <<>>
  ELSE LET rest == CollapseWhitespace(Tail(text))
       IN IF ~IsSpace(Head(text).ch) THEN Concat(<<Head(text)>>, rest)
          ELSE IF rest # <<>> /\ Head(rest).ch = " " THEN rest
          ELSE <<Run(" ", 1)>> \o rest
\* scraper.ts:242 `.replace(/\n\s*\n/g, '\n')`: in a stretch of whitespace
\* with two line breaks or more, everything from the first line break to the
\* last becomes one line break.
RECURSIVE RemoveBlankLines(_)
RemoveBlankLines(text) ==
  IF text = <<>> THEN <<>>
  ELSE IF ~IsSpace(Head(text).ch)
  THEN <<Head(text)>> \o RemoveBlankLines(Tail(text))
  ELSE LET k == CHOOSE n \in 1..Len(text) :
                  /\ \A i \in 1..n : IsSpace(text[i].ch)
                  /\ n < Len(text) => ~IsSpace(text[n + 1].ch)
           breaks == {i \in 1..k : text[i].ch = "\n"}
           squeezed ==
             IF \E i \in breaks : text[i].n >= 2 \/ breaks \ {i} # {}
             THEN (IF text[1].ch = " " THEN <<text[1]>> ELSE <<>>)
                    \o <<Run("\n", 1)>>
                    \o (IF text[k].ch = " " THEN <<text[k]>> ELSE <<>>)
             ELSE SubSeq(text, 1, k)
       IN squeezed \o RemoveBlankLines(SubSeq(text, k + 1, Len(text)))
\* String.prototype.trim on runs.
RECURSIVE TrimRuns(_)
TrimRuns(text) ==
  IF text # <<>> /\ IsSpace(Head(text).ch) THEN TrimRuns(Tail(text))
  ELSE IF text # <<>> /\ IsSpace(text[Len(text)].ch)
  THEN TrimRuns(SubSeq(text, 1, Len(text) - 1))
  ELSE text
\* text.substring(0, length).
RECURSIVE Substring(_, _)
Substring(text, length) ==
  IF text = <<>> \/ length <= 0 THEN <<>>
  ELSE IF Head(text).n >= length THEN <<Run(Head(text).ch, length)>>
  ELSE <<Head(text)>> \o Substring(Tail(text), length - Head(text).n)
Marker == <<Run(".", 3)>>

\* The document DOMParser builds, as far as the scraper queries it: the meta
\* elements in document order (attr is the attribute that carries the key,
\* content is NULL without a content attribute), the title element's text
\* (NULL without the element), the body elements (none, or one with its
\* children), and the link elements.
Meta(attr, key, content) == [attr |-> attr, key |-> key, content |-> content]
Node(tag, text) == [tag |-> tag, text |-> text]
Link(rel, href) == [rel |-> rel, href |-> href]
NoBody == <<>>
Body(children) == <<children>>
Page(metas, title, body, links) ==
  [metas |-> metas, title |-> title, body |-> body, links |-> links]

\* doc.querySelector(`meta[attr="key"]`): the first such element, 0 for null.
QueryMeta(doc, attr, key) ==
  LET found == {i \in DOMAIN doc.metas : doc.metas[i].attr = attr /\ doc.metas[i].key = key}
  IN IF found = {} THEN 0 ELSE CHOOSE i \in found : \A j \in found : i <= j

\* scraper.ts:132-146 extractMeta.
extractMeta(doc, property) ==
  LET propertyMeta == QueryMeta(doc, "property", property)
      nameMeta == QueryMeta(doc, "name", property)
  IN IF propertyMeta # 0 THEN doc.metas[propertyMeta].content
     ELSE IF nameMeta # 0 THEN doc.metas[nameMeta].content
     ELSE NULL

\* titleElement.textContent.trim() on the titles of the model.
TrimTitle(title) == IF title = " " THEN "" ELSE title
\* scraper.ts:151-165 extractTitle.
extractTitle(doc) ==
  LET ogTitle == extractMeta(doc, "og:title")
  IN IF Truthy(ogTitle) THEN ogTitle
     ELSE IF Truthy(doc.title) THEN TrimTitle(doc.title)
     ELSE NULL

\* scraper.ts:170-184 extractDescription.
OgDescriptionOnly(doc) ==
  LET ogDescription == extractMeta(doc, "og:description")
  IN IF Truthy(ogDescription) THEN ogDescription ELSE NULL
extractDescription(doc) ==
  LET ogDescription == extractMeta(doc, "og:description")
      description == extractMeta(doc, "description")
  IN IF Truthy(ogDescription) THEN ogDescription
     ELSE IF Truthy(description) THEN description
     ELSE NULL

\* scraper.ts:282-301 resolveUrl on the references of the model: absolute,
\* protocol-relative, and relative to the root of the site.
AbsoluteRefs == {"https://cdn.example.com/i.png"}
ProtocolRelativeRefs == {"//cdn.example.com/i.png"}
RootRelativeRefs == {"/i.png", "/f.ico"}
resolveUrl(relative, base) ==
  CASE relative \in AbsoluteRefs -> relative
    [] relative \in ProtocolRelativeRefs -> UrlProtocol(base) \o relative
    [] OTHER -> base \o relative

\* scraper.ts:189-203 extractImage.
extractImage(doc, baseUrl) ==
  LET ogImage == extractMeta(doc, "og:image")
      twitterImage == extractMeta(doc, "twitter:image")
  IN IF Truthy(ogImage) THEN resolveUrl(ogImage, baseUrl)
     ELSE IF Truthy(twitterImage) THEN resolveUrl(twitterImage, baseUrl)
     ELSE NULL

\* scraper.ts:257-277 extractFavicon: for each selector in turn, the first
\* link element it matches, if that has a href.
extractFavicon(doc, baseUrl) ==
  LET First(rel) ==
        LET found == {i \in DOMAIN doc.links : doc.links[i].rel = rel}
        IN IF found = {} THEN NULL
           ELSE doc.links[CHOOSE i \in found : \A j \in found : i <= j].href
      icon == First("icon")
      shortcut == First("shortcut icon")
      apple == First("apple-touch-icon")
  IN IF Truthy(icon) THEN resolveUrl(icon, baseUrl)
     ELSE IF Truthy(shortcut) THEN resolveUrl(shortcut, baseUrl)
     ELSE IF Truthy(apple) THEN resolveUrl(apple, baseUrl)
     ELSE baseUrl \o "/favicon.ico"

\* scraper.ts:218-234: the elements removed from the clone of the body.
Removed == {"script", "style", "noscript", "iframe", "nav", "header", "footer", "aside"}
\* bodyClone.textContent after the removal.
RECURSIVE ContentText(_)
ContentText(nodes) ==
  IF nodes = <<>> THEN <<>>
  ELSE IF Head(nodes).tag \in Removed THEN ContentText(Tail(nodes))
  ELSE Concat(Head(nodes).text, ContentText(Tail(nodes)))

\* scraper.ts:246.
maxLength == 10000
\* scraper.ts:208-252 extractTextContent.
extractTextUncapped(doc) ==
  IF doc.body = NoBody THEN <<>>
  ELSE TrimRuns(RemoveBlankLines(CollapseWhitespace(ContentText(doc.body[1]))))
extractTextContent(doc) ==
  IF doc.body = NoBody THEN <<>>
  ELSE LET text == TrimRuns(RemoveBlankLines(CollapseWhitespace(ContentText(doc.body[1]))))
       IN IF TextLength(text) > maxLength
          THEN Concat(Substring(text, maxLength), Marker)
          ELSE text

\* scraper.ts:306-317 validateImageUrl; probe is what the HEAD request gives
\* (of Responses).
Unvalidated(imageUrl, probe) == imageUrl
validateImageUrl(imageUrl, probe) == IF probe = "200" THEN imageUrl ELSE NULL

\* scraper.ts:321-331 createEmptyMetadata, the whole record.
UrlMetadata(url, title, description, ogImage, siteName, favicon, textContent) ==
  [url |-> url, title |-> title, description |-> description, ogImage |-> ogImage,
   siteName |-> siteName, favicon |-> favicon, textContent |-> textContent]
EmptyWithFavicon(url) ==
  UrlMetadata(url, NULL, NULL, NULL, NULL, Origin(url) \o "/favicon.ico", <<>>)
emptyMetadata(url) == UrlMetadata(url, NULL, NULL, NULL, NULL, NULL, <<>>)

\* scraper.ts:22-57, scrape() of a page: answer is what requestUrl gives (a
\* rejection, or a status and the document parsed from the text).
ImageCandidate(answer) ==
  IF answer.received /\ answer.status = 200
  THEN extractImage(answer.doc, Origin(PageUrl))
  ELSE NULL
scrapePage(url, answer, probe) ==
  IF ~answer.received THEN emptyMetadata(url)
  ELSE IF answer.status # 200 THEN emptyMetadata(url)
  ELSE LET doc == answer.doc
           baseUrl == Origin(url)
           ogImageCandidate == extractImage(doc, baseUrl)
       IN UrlMetadata(url,
                      extractTitle(doc),
                      extractDescription(doc),
                      IF Truthy(ogImageCandidate)
                      THEN validateImageUrl(ogImageCandidate, probe) ELSE NULL,
                      extractMeta(doc, "og:site_name"),
                      extractFavicon(doc, baseUrl),
                      extractTextContent(doc))

\* The post object of the API's answer: its text, photos and videos (each
\* with its url / thumbnail_url, NULL when absent), the external card's
\* thumbnail and the author's name, screen_name and avatar_url.
Tweet(text, photos, videos, external, name, screen_name, avatar) ==
  [text |-> text, photos |-> photos, videos |-> videos, external |-> external,
   name |-> name, screen_name |-> screen_name, avatar |-> avatar]
\* A string of the API as a text of the model.
AsText(text) == IF text = "" THEN <<>> ELSE <<Run(text, 1)>>

\* scraper.ts:96-107: photo, video thumbnail, external card, avatar.
TweetImage(tweet) ==
  LET media == IF tweet.photos # <<>> THEN tweet.photos[1]
               ELSE IF tweet.videos # <<>> THEN tweet.videos[1]
               ELSE IF Truthy(tweet.external) THEN tweet.external
               ELSE NULL
  IN IF ~Truthy(media) /\ Truthy(tweet.avatar) THEN tweet.avatar ELSE media

\* scraper.ts:67-127 scrapeTwitter: answer is what requestUrl gives for the
\* API (a rejection, or a status and a body that is no JSON, JSON without
\* tweet, or JSON with one).
scrapeTwitter(originalUrl, answer, probe) ==
  IF ~StatusMatch(originalUrl) THEN emptyMetadata(originalUrl)
  ELSE IF ~answer.received THEN emptyMetadata(originalUrl)
  ELSE IF answer.status # 200 THEN emptyMetadata(originalUrl)
  ELSE IF answer.json.kind # "tweet" THEN emptyMetadata(originalUrl)
  ELSE LET tweet == answer.json.tweet
           screenName == ScreenName(originalUrl)
           ogImage == TweetImage(tweet)
           name == IF tweet.name # NULL THEN tweet.name ELSE screenName
           handle == IF tweet.screen_name # NULL THEN tweet.screen_name ELSE screenName
       IN UrlMetadata(originalUrl,
                      name \o " (@" \o handle \o ")",
                      tweet.text,
                      IF Truthy(ogImage) THEN validateImageUrl(ogImage, probe) ELSE NULL,
                      "X (Twitter)",
                      tweet.avatar,
                      IF tweet.text # NULL THEN AsText(tweet.text) ELSE <<>>)

\* scraper.ts:13-62 scrape: the whole function, with what the network gives
\* its request (answer) and the image's HEAD request (probe).
scrapeUrl(url, answer, probe) ==
  IF Hostname(url) = "throws" THEN emptyMetadata(url)
  ELSE IF Hostname(url) \in TWITTER_HOSTS THEN scrapeTwitter(url, answer, probe)
  ELSE scrapePage(url, answer, probe)

\* The image URL scrape() sends a HEAD request for, NULL when it sends none.
ProbedImage(url, answer) ==
  IF Hostname(url) = "throws" THEN NULL
  ELSE IF Hostname(url) \in TWITTER_HOSTS
  THEN IF StatusMatch(url) /\ answer.received /\ answer.status = 200
          /\ answer.json.kind = "tweet"
       THEN IF Truthy(TweetImage(answer.json.tweet)) THEN TweetImage(answer.json.tweet)
            ELSE NULL
       ELSE NULL
  ELSE IF Truthy(ImageCandidate(answer)) THEN ImageCandidate(answer) ELSE NULL

\* A scrape call from its call to its return, with the record of it.
NoScrape == [url |-> NULL]
Scrape(url, answer, probe) ==
  /\ scraped' = [url |-> url, answer |-> answer,
                 image |-> ProbedImage(url, answer),
                 probe |-> IF ProbedImage(url, answer) = NULL THEN NULL ELSE probe,
                 metadata |-> scrapeUrl(url, answer, probe)]
  /\ UNCHANGED <<vaultVars, pluginVars, monitorVars, scans, processingNodes, calls,
                 emitted, scanOk, reported, lastReplace, generated, probed>>

\* ------------------------------------------------------------ the batches
\* A batch command's invocation: the function that runs ("all":
\* enrichAllLinksInCanvas, "selected": enrichSelectedLinks), where it is
\* suspended ("read": on getLinkNodes, "run": on the enrichLinkNode of
\* nodes[i]), the canvas, the nodes it enumerates, the position of its loop
\* and the slot of the call it awaits.
IdleBatch ==
  [fn |-> NULL, pc |-> "idle", path |-> NULL, nodes |-> <<>>, i |-> 0, call |-> 0]

\* main.ts:263-280 getSelectedLinkNodes (and 227 for the file's nodes): the
\* link nodes with a valid URL, in the order given.
ValidLinks(nodes) ==
  SelectSeq(nodes, LAMBDA data : data.type = "link" /\ isValidUrl(data.url))

\* transformer.ts:62-75 getLinkNodes after its read: the link nodes of the
\* file, none when the read or the parse throws.
getLinkNodes(content, io) ==
  IF ~io \/ ~content.ok THEN <<>>
  ELSE SelectSeq(content.nodes, LAMBDA node : node.type = "link")

\* main.ts:219-221 / 236-238, one turn of the loop: enrichLinkNode is called
\* for nodes[i] and runs to its first suspension; the batch awaits it.
BatchInvoke(fn, path, nodes, i, cs) ==
  LET st == enrichLinkNode([pn |-> processingNodes, cs |-> cs], path, nodes[i])
  IN /\ HasFree(cs)
     /\ processingNodes' = st.pn
     /\ calls' = st.cs
     /\ batch' = [fn |-> fn, pc |-> "run", path |-> path, nodes |-> nodes, i |-> i,
                  call |-> FreeSlot(cs)]

\* main.ts:72-80 and 225-226: the command calls enrichAllLinksInCanvas, which
\* suspends on getLinkNodes' read.
EnrichAllStart(path) ==
  /\ phase = "loaded"
  /\ batch.pc = "idle"
  /\ batch' = [IdleBatch EXCEPT !.fn = "all", !.pc = "read", !.path = path]
  /\ UNCHANGED <<phase, settings, aiProvider, activeView, saves, vaultVars, monitorVars, scans,
                 processingNodes, calls, historyVars>>

\* main.ts:226-238: getLinkNodes has returned; without a valid link the
\* function returns, otherwise the loop starts.
GetLinkNodesReturn(io) ==
  /\ batch.pc = "read"
  /\ LET linkNodes == getLinkNodes(canvas[batch.path], io)
         validLinks == SelectSeq(linkNodes, LAMBDA n : isValidUrl(n.url))
     IN IF Len(validLinks) = 0
        THEN batch' = IdleBatch /\ UNCHANGED <<processingNodes, calls>>
        ELSE BatchInvoke("all", batch.path, validLinks, 1, calls)
  /\ UNCHANGED <<phase, settings, aiProvider, activeView, saves, vaultVars, monitorVars, scans, historyVars>>

\* main.ts:56-66 and 213-221: the command calls enrichSelectedLinks on the
\* view's selection (it is offered only when the selection has a valid
\* link); the loop starts at once.
EnrichSelectedStart(path, selected) ==
  /\ phase = "loaded"
  /\ batch.pc = "idle"
  /\ LET selection == ValidLinks(selected)
     IN /\ Len(selection) # 0
        /\ BatchInvoke("selected", path, selection, 1, calls)
  /\ UNCHANGED <<phase, settings, aiProvider, activeView, saves, vaultVars, monitorVars, scans, historyVars>>

\* The await on enrichLinkNode in the loop: the batch goes on when the call
\* has returned.
NotAwaited(call) == TRUE
Awaited(call) == call.pc = "done"

\* main.ts:219-221 / 236-240: the awaited call has returned (its result is
\* dropped); the loop takes the next node or the function returns.
BatchResume ==
  /\ batch.pc = "run"
  /\ Awaited(calls[batch.call])
  /\ LET cs == IF calls[batch.call].pc = "done"
               THEN [calls EXCEPT ![batch.call] = IdleCall]
               ELSE calls
     IN IF batch.i < Len(batch.nodes)
        THEN BatchInvoke(batch.fn, batch.path, batch.nodes, batch.i + 1, cs)
        ELSE batch' = IdleBatch /\ calls' = cs /\ UNCHANGED processingNodes
  /\ UNCHANGED <<phase, settings, aiProvider, activeView, saves, vaultVars, monitorVars, scans, historyVars>>

\* ------------------------------------------------------------ environment
\* The canvas editor (or anything else) writes a canvas file; the vault fires
\* 'modify'.  A save that changes nothing is a write too.
WriteCanvas(path, content) ==
  /\ canvas' = [canvas EXCEPT ![path] = content]
  /\ scans' = Notify(path)
  /\ UNCHANGED <<notes, noteText, folderExists, pluginVars, monitorVars,
                 processingNodes, calls, historyVars>>

\* ---------------------------------------------------------------- monitor
NoRef == 0
FreshRef == CHOOSE r \in 1..MaxRefs : r \notin handlers /\ \A q \in 1..MaxRefs : q < r => q \in handlers
NoBaselines == [p \in {} |-> {}]

\* transformer.ts:92-98 startWatching: vault.on registers a handler and the
\* reference to it overwrites modifyHandler.
startWatching ==
  /\ handlers' = handlers \cup {FreshRef}
  /\ modifyHandler' = FreshRef
  /\ UNCHANGED <<seenNodes, initializedCanvases>>

CanStartWatching == \E r \in 1..MaxRefs : r \notin handlers

\* transformer.ts:100-107 stopWatching.
stopWatching ==
  /\ IF modifyHandler # NoRef
     THEN handlers' = handlers \ {modifyHandler} /\ modifyHandler' = NoRef
     ELSE UNCHANGED <<handlers, modifyHandler>>
  /\ seenNodes' = NoBaselines
  /\ initializedCanvases' = {}

\* transformer.ts:146-154 clearCache; NULL is the omitted argument.
clearCacheAll(canvasPath) ==
  /\ seenNodes' = NoBaselines
  /\ initializedCanvases' = {}
clearCache(canvasPath) ==
  IF canvasPath # NULL
  THEN /\ seenNodes' = [p \in DOMAIN seenNodes \ {canvasPath} |-> seenNodes[p]]
       /\ initializedCanvases' = initializedCanvases \ {canvasPath}
  ELSE /\ seenNodes' = NoBaselines
       /\ initializedCanvases' = {}

ClearCache(canvasPath) ==
  /\ clearCache(canvasPath)
  /\ UNCHANGED <<modifyHandler, handlers, vaultVars, pluginVars, scans,
                 processingNodes, calls, historyVars>>

\* main.ts:132-137 handleNewLinkNode, to its first suspension.  full is set
\* when the call table has no slot left for the call (a bound of the model).
handleWhateverTheSetting(st, file, node) ==
  IF ~isValidUrl(node.url) THEN st
  ELSE IF ~HasFree(st.cs) THEN [st EXCEPT !.full = TRUE]
  ELSE LET t == enrichLinkNode([pn |-> st.pn, cs |-> st.cs], file, node)
       IN [st EXCEPT !.pn = t.pn, !.cs = t.cs]
handleNewLinkNode(st, file, node) ==
  IF ~settings.autoEnrichOnPaste THEN st
  ELSE IF ~isValidUrl(node.url) THEN st
  ELSE IF ~HasFree(st.cs) THEN [st EXCEPT !.full = TRUE]
  ELSE LET t == enrichLinkNode([pn |-> st.pn, cs |-> st.cs], file, node)
       IN [st EXCEPT !.pn = t.pn, !.cs = t.cs]

\* transformer.ts:129, the test that decides whether onNewLinkNode is called.
NewUnlessSeen(isFirstScan, previouslySeen, id) == id \notin previouslySeen
NewUnlessFirst(isFirstScan, previouslySeen, id) == ~isFirstScan
IsNewLink(isFirstScan, previouslySeen, id) == ~isFirstScan /\ id \notin previouslySeen

\* transformer.ts:124-131: the for-of loop calls onNewLinkNode for the new
\* nodes one after the other, in the order of linkNodes.
CalledFirst(called, id) == <<id>> \o called
CalledNext(called, id) == Append(called, id)

\* transformer.ts:124-132, the loop over the link nodes from index k on.
\* acc: currentNodes, the ids passed to onNewLinkNode (in call order), and the
\* plugin state the callback (main.ts:44) works on.
RECURSIVE ScanLoop(_, _, _, _, _, _)
ScanLoop(linkNodes, k, file, isFirstScan, previouslySeen, acc) ==
  IF k > Len(linkNodes) THEN acc
  ELSE LET node == linkNodes[k]
           isNew == IsNewLink(isFirstScan, previouslySeen, node.id)
           next == [currentNodes |-> acc.currentNodes \cup {node.id},
                    called |-> IF isNew THEN CalledNext(acc.called, node.id) ELSE acc.called,
                    st |-> IF isNew THEN handleNewLinkNode(acc.st, file, node) ELSE acc.st]
       IN ScanLoop(linkNodes, k + 1, file, isFirstScan, previouslySeen, next)

\* transformer.ts:135, the baseline the scan stores.
AccumulatedBaseline(previouslySeen, currentNodes) == previouslySeen \cup currentNodes
NextBaseline(previouslySeen, currentNodes) == currentNodes

\* transformer.ts:141-143, the catch block of checkForNewLinks.
ScanFailedMarksInitialized(file) ==
  /\ initializedCanvases' = initializedCanvases \cup {file}
  /\ UNCHANGED <<seenNodes, processingNodes, calls>>
ScanFailed(file) ==
  UNCHANGED <<seenNodes, initializedCanvases, processingNodes, calls>>

\* transformer.ts:109-144 checkForNewLinks from the resumption of its await on
\* vault.read to its end; io = FALSE is a read that rejects.  The content is
\* the file's at the time the read completes.
CheckForNewLinks(file, io) ==
  /\ scans[file] > 0
  /\ scans' = [scans EXCEPT ![file] = @ - 1]
  /\ IF ~io \/ ~canvas[file].ok
     THEN /\ ScanFailed(file)
          /\ emitted' = <<>>
          /\ scanOk' = FALSE
     ELSE LET isFirstScan == file \notin initializedCanvases
              previouslySeen == IF file \in DOMAIN seenNodes THEN seenNodes[file] ELSE {}
              linkNodes == SelectSeq(canvas[file].nodes, LAMBDA node : node.type = "link")
              end == ScanLoop(linkNodes, 1, file, isFirstScan, previouslySeen,
                              [currentNodes |-> {}, called |-> <<>>,
                               st |-> [pn |-> processingNodes, cs |-> calls, full |-> FALSE]])
          IN /\ ~end.st.full
             /\ seenNodes' = [p \in DOMAIN seenNodes \cup {file} |->
                                IF p = file THEN NextBaseline(previouslySeen, end.currentNodes)
                                ELSE seenNodes[p]]
             /\ initializedCanvases' =
                  IF isFirstScan THEN initializedCanvases \cup {file} ELSE initializedCanvases
             /\ processingNodes' = end.st.pn
             /\ calls' = end.st.cs
             /\ emitted' = end.called
             /\ scanOk' = TRUE
  /\ UNCHANGED <<modifyHandler, handlers, vaultVars, pluginVars, lastReplace, generated,
                 probed, scraped>>

\* ----------------------------------------------------------------- plugin
DefaultNotesFolder == "Canvas Notes"
DefaultPrompt ==
  "Summarize this web page content in 2-3 sentences. Focus on the main topic and key points. Be concise and informative."

\* constants.ts DEFAULT_SETTINGS (part_000:38-58): of the settings, those the
\* monitor, the note generator and the generation step read.
DEFAULT_SETTINGS ==
  [autoEnrichOnPaste |-> TRUE, notesFolder |-> DefaultNotesFolder,
   aiProvider |-> "ollama", descriptionPrompt |-> DefaultPrompt]

\* provider-factory.ts createProvider (part_001:23-51): the backend object, by
\* the name of its kind in Providers; OpenRouter and Groq are served by the
\* OpenAI-compatible backend, an unknown name by Ollama.
createProvider(s) ==
  CASE s.aiProvider \in {"openai", "openrouter", "groq"} -> "openai"
    [] s.aiProvider = "claude" -> "claude"
    [] OTHER -> "ollama"

\* main.ts:30-50 onload: the settings are loaded (auto is the stored
\* autoEnrichOnPaste), the services are made and the monitor starts watching
\* when auto-enrich is on.
Onload(auto) ==
  /\ phase = "constructed"
  /\ phase' = "loaded"
  /\ settings' = [DEFAULT_SETTINGS EXCEPT !.autoEnrichOnPaste = auto]
  /\ aiProvider' = createProvider(settings')
  /\ UNCHANGED activeView
  /\ IF auto
     THEN startWatching
     ELSE UNCHANGED monitorVars
  /\ UNCHANGED <<saves, vaultVars, scans, processingNodes, calls, batch, historyVars>>

\* main.ts:109-111 onunload.
Onunload ==
  /\ phase = "loaded"
  /\ phase' = "unloaded"
  /\ stopWatching
  /\ UNCHANGED <<settings, aiProvider, activeView, saves, vaultVars, scans, processingNodes, calls, batch,
                 historyVars>>

\* settings.ts: a control's onChange assigns the setting and calls
\* saveSettings, which suspends on saveData (main.ts:117-118).  auto is the
\* value of autoEnrichOnPaste afterwards (unchanged when another setting is
\* edited).
ChangeSetting(auto) ==
  /\ phase = "loaded"
  /\ saves < MaxSaves
  /\ settings' = [settings EXCEPT !.autoEnrichOnPaste = auto]
  /\ saves' = saves + 1
  /\ UNCHANGED <<phase, aiProvider, activeView, vaultVars, monitorVars, scans, processingNodes, calls, batch,
                 historyVars>>

\* settings.ts:37-41 and 105-108: the provider is chosen from the dropdown, or
\* the prompt's text area is edited (an empty text stands for the default
\* prompt); the setting is assigned and saveSettings is called.
ChangeProvider(value) ==
  /\ phase = "loaded"
  /\ saves < MaxSaves
  /\ settings' = [settings EXCEPT !.aiProvider = value]
  /\ saves' = saves + 1
  /\ UNCHANGED <<phase, aiProvider, activeView, vaultVars, monitorVars, scans, processingNodes, calls, batch,
                 historyVars>>
ChangePrompt(value) ==
  /\ phase = "loaded"
  /\ saves < MaxSaves
  /\ settings' = [settings EXCEPT
                    !.descriptionPrompt = IF Truthy(value) THEN value
                                          ELSE DEFAULT_SETTINGS.descriptionPrompt]
  /\ saves' = saves + 1
  /\ UNCHANGED <<phase, aiProvider, activeView, vaultVars, monitorVars, scans, processingNodes, calls, batch,
                 historyVars>>

\* main.ts:120-128 saveSettings after saveData has resolved.
SaveSettingsResume ==
  /\ saves > 0
  /\ saves' = saves - 1
  /\ aiProvider' = createProvider(settings)
  /\ UNCHANGED activeView
  /\ IF settings.autoEnrichOnPaste
     THEN CanStartWatching /\ startWatching
     ELSE stopWatching
  /\ UNCHANGED <<phase, settings, vaultVars, scans, processingNodes, calls, batch, historyVars>>

\* ---------------------------------------------------------- specifications
Init ==
  /\ canvas = [p \in Docs |-> Content(<<>>)]
  /\ batch = IdleBatch
  /\ notes = {}
  /\ noteText = [p \in {} |-> NULL]
  /\ folderExists = FALSE
  /\ phase = "constructed"
  /\ settings = DEFAULT_SETTINGS
  /\ aiProvider = NULL
  /\ activeView = NULL
  /\ saves = 0
  /\ modifyHandler = NoRef
  /\ handlers = {}
  /\ seenNodes = NoBaselines
  /\ initializedCanvases = {}
  /\ scans = [p \in Docs |-> 0]
  /\ processingNodes = {}
  /\ calls = [c \in 1..MaxCalls |-> IdleCall]
  /\ emitted = <<>>
  /\ scanOk = TRUE
  /\ reported = [p \in Docs |-> {}]
  /\ lastReplace = NoReplace
  /\ generated = NoGeneration
  /\ probed = NoProbe
  /\ scraped = NoScrape

\* The enrichment pipeline with auto-enrich off (nothing watches the vault):
\* menu clicks on the link cards of one canvas race while the canvas file is
\* edited: the user writes both cards, removes one, turns one into a file
\* card, or leaves a content that does not parse.
EnrichDocs == {"a.canvas"}
EnrichContents ==
  { Content(<<LinkNode("n1", ValidUrl), LinkNode("n2", ValidUrl)>>),
    Content(<<LinkNode("n2", ValidUrl)>>),
    Content(<<FileNode("n1", "note.md"), LinkNode("n2", ValidUrl)>>),
    Malformed }
NextEnrich ==
  \/ Onload(FALSE)
  \/ \E path \in EnrichDocs, id \in Ids : MenuEnrich(path, LinkNode(id, ValidUrl))
  \/ \E c \in 1..MaxCalls : ScrapeReturn(c, FullMetadata)
  \/ \E c \in 1..MaxCalls : GenerateReturn(c, FALSE)
  \/ \E c \in 1..MaxCalls, io \in BOOLEAN : CreateFolderReturn(c, io)
  \/ \E c \in 1..MaxCalls, t \in Timestamps : PickPath(c, t)
  \/ \E c \in 1..MaxCalls, io \in BOOLEAN : CreateReturn(c, io)
  \/ \E c \in 1..MaxCalls, io \in BOOLEAN : ReplaceReturn(c, io)
  \/ \E c \in 1..MaxCalls : Forget(c)
  \/ \E path \in EnrichDocs, content \in EnrichContents : WriteCanvas(path, content)

SpecEnrich == Init /\ [][NextEnrich]_vars

\* The pipeline with its failures: the fetch of the page fails or not, the
\* generation throws or not, the vault's operations fail or not, while the
\* canvas file is edited.  Menu clicks are on the card n1, one call at a
\* time (SpecEnrich has the calls that race).
NextPipeline ==
  \/ Onload(FALSE)
  \/ \E path \in EnrichDocs :
       /\ \A c \in 1..MaxCalls : calls[c].pc = "idle"
       /\ MenuEnrich(path, LinkNode("n1", ValidUrl))
  \/ \E c \in 1..MaxCalls, response \in Responses : ScrapeReturn(c, scrape(response))
  \/ \E c \in 1..MaxCalls, thrown \in BOOLEAN : GenerateReturn(c, thrown)
  \/ \E c \in 1..MaxCalls, io \in BOOLEAN : CreateFolderReturn(c, io)
  \/ \E c \in 1..MaxCalls, t \in Timestamps : PickPath(c, t)
  \/ \E c \in 1..MaxCalls, io \in BOOLEAN : CreateReturn(c, io)
  \/ \E c \in 1..MaxCalls, io \in BOOLEAN : ReplaceReturn(c, io)
  \/ \E c \in 1..MaxCalls : Forget(c)
  \/ \E path \in EnrichDocs, content \in EnrichContents : WriteCanvas(path, content)

SpecPipeline == Init /\ [][NextPipeline]_vars

\* The two batch commands on one canvas whose file and whose view hold link
\* cards with valid and invalid URLs and file cards; the vault's operations
\* fail or not, and the file is edited while a batch runs.
BatchContents ==
  { Content(<<LinkNode("n1", ValidUrl), LinkNode("n2", ValidUrl)>>),
    Content(<<LinkNode("n2", ValidUrl), LinkNode("n1", ValidUrl)>>),
    Content(<<LinkNode("n1", ValidUrl), LinkNode("n2", InvalidUrl)>>),
    Content(<<LinkNode("n1", InvalidUrl)>>),
    Content(<<LinkNode("n1", "ftp://example.com/f"), LinkNode("n2", "http://example.org")>>),
    Content(<<FileNode("n1", "note.md"), LinkNode("n2", ValidUrl)>>),
    Malformed }
Selections == {content.nodes : content \in BatchContents \ {Malformed}}

NextBatch ==
  \/ Onload(FALSE)
  \/ EnrichAllStart("a.canvas")
  \/ \E io \in BOOLEAN : GetLinkNodesReturn(io)
  \/ \E selected \in Selections : EnrichSelectedStart("a.canvas", selected)
  \/ BatchResume
  \/ \E c \in 1..MaxCalls : ScrapeReturn(c, scrape("200"))
  \/ \E c \in 1..MaxCalls : GenerateReturn(c, FALSE)
  \/ \E c \in 1..MaxCalls : CreateFolderReturn(c, TRUE)
  \/ \E c \in 1..MaxCalls, t \in Timestamps : PickPath(c, t)
  \/ \E c \in 1..MaxCalls, io \in BOOLEAN : CreateReturn(c, io)
  \/ \E c \in 1..MaxCalls, io \in BOOLEAN : ReplaceReturn(c, io)
  \/ \E content \in BatchContents : WriteCanvas("a.canvas", content)

SpecBatch == Init /\ [][NextBatch]_vars

\* A scan, with and without the record of the ids reported so far.
Scan(file, io) ==
  /\ CheckForNewLinks(file, io)
  /\ UNCHANGED reported

ScanReported(file, io) ==
  /\ CheckForNewLinks(file, io)
  /\ reported' = [reported EXCEPT ![file] = @ \cup {emitted'[i] : i \in 1..Len(emitted')}]

\* The contents written to the two canvases of SpecMonitor: every list of
\* link cards, one list with a file card before a link card, and a content
\* that does not parse.
MonitorContents ==
  {Content(s) : s \in {t \in NodeLists({InvalidUrl}) : \A i \in 1..Len(t) : t[i].type = "link"}}
    \cup {Content(<<FileNode("n1", "note.md"), LinkNode("n2", InvalidUrl)>>), Malformed}

\* The monitor of a loaded plugin with auto-enrich on: two canvases are
\* written and scanned, the cache is cleared, the plugin is unloaded.  The
\* link cards written here carry a URL isValidUrl rejects, so that
\* handleNewLinkNode returns at its gate and the scans start no enrichment.
NextMonitor ==
  \/ Onload(TRUE)
  \/ Onunload
  \/ \E path \in Docs, content \in MonitorContents : WriteCanvas(path, content)
  \/ \E file \in Docs, io \in BOOLEAN : Scan(file, io)
  \/ \E canvasPath \in Docs \cup {NULL} : ClearCache(canvasPath)

SpecMonitor == Init /\ [][NextMonitor]_vars

\* The same on one canvas, with every content of at most MaxNodes link and
\* file cards, and with the record of what has been reported.
NextReport ==
  \/ Onload(TRUE)
  \/ Onunload
  \/ \E content \in Contents({InvalidUrl}) : WriteCanvas("a.canvas", content)
  \/ \E io \in BOOLEAN : ScanReported("a.canvas", io)
  \/ \E canvasPath \in {"a.canvas", NULL} : ClearCache(canvasPath)

SpecReport == Init /\ [][NextReport]_vars

\* The plugin's wiring of the monitor on one canvas: loading, unloading and
\* saving settings start and stop the watch while the canvas is written and
\* scanned.
NextWiring ==
  \/ \E auto \in BOOLEAN : Onload(auto)
  \/ Onunload
  \/ \E auto \in BOOLEAN : ChangeSetting(auto)
  \/ SaveSettingsResume
  \/ \E content \in Contents({InvalidUrl}) : WriteCanvas("a.canvas", content)
  \/ \E io \in BOOLEAN : Scan("a.canvas", io)

SpecWiring == Init /\ [][NextWiring]_vars

\* The transformer on one canvas of a loaded plugin.  The canvas holds link
\* cards with either box and any color, file cards, and edges between the
\* two ids, one of them with an endpoint that is no node's id.
RichNodes ==
  {LinkCard(i, ValidUrl, b, col) : i \in Ids, b \in Boxes, col \in Colors}
    \cup {FileCard(i, f, DefaultBox, col) : i \in Ids, f \in UserFiles, col \in {NULL, "1"}}
RichNodeLists ==
  {<<>>} \cup {<<n>> : n \in RichNodes}
    \cup {<<n, m>> : n \in {r \in RichNodes : r.id = "n1"}, m \in {r \in RichNodes : r.id = "n2"}}
    \cup {<<n, m>> : n \in {r \in RichNodes : r.id = "n2"}, m \in {r \in RichNodes : r.id = "n1"}}
EdgeLists ==
  { <<>>,
    <<Edge("e1", "n1", "n2")>>,
    <<Edge("e1", "n2", "n1"), Edge("e2", "n1", "gone")>> }
RichContents == {CanvasData(s, e) : s \in RichNodeLists, e \in EdgeLists} \cup {Malformed}
NotePaths == {"Canvas Notes/Example.md"}

NextReplace ==
  \/ Onload(FALSE)
  \/ \E content \in RichContents : WriteCanvas("a.canvas", content)
  \/ \E linkNodeId \in Ids, notePath \in NotePaths, io \in BOOLEAN :
       ReplaceLinkWithFile("a.canvas", linkNodeId, notePath, io)

SpecReplace == Init /\ [][NextReplace]_vars

\* The generation backends on every response of the model.
NextGenerate ==
  \E provider \in Providers : \E response \in ApiResponses(provider) :
    Generate(provider, response)

SpecGenerate == Init /\ [][NextGenerate]_vars

\* The backends' getModels and checkConnection on every response of the model.
NextProbe ==
  \E provider \in Providers : \E response \in ProbeResponses :
    \/ \E model \in Models : GetModels(provider, model, response)
    \/ CheckConnection(provider, response)

SpecProbe == Init /\ [][NextProbe]_vars

\* The scraper on pages with and without a cover image, on posts of the
\* social network, and on every failure of its requests.
ImageUrl == "https://cdn.example.com/i.png"
ScrapeMetas ==
  {<<>>,
   <<Meta("property", "og:image", ImageUrl)>>,
   <<Meta("property", "og:image", "//cdn.example.com/i.png"),
     Meta("name", "description", "A page.")>>,
   <<Meta("property", "og:image", ""), Meta("name", "twitter:image", "/i.png")>>,
   <<Meta("property", "og:title", "Example"), Meta("property", "og:site_name", "Site")>>}
ScrapePages ==
  {Page(metas, title, body, links) :
     metas \in ScrapeMetas, title \in {NULL, "Example", " "},
     body \in {NoBody, Body(<<Node("#text", <<Run("a", 1)>>)>>)},
     links \in {<<>>, <<Link("icon", "/f.ico")>>}}
Tweets ==
  {Tweet(text, photos, videos, NULL, "User", "user", avatar) :
     text \in {NULL, "Hello"}, photos \in {<<>>, <<NULL>>, <<ImageUrl>>},
     videos \in {<<>>, <<ImageUrl>>}, avatar \in {NULL, "https://cdn.example.com/a.png"}}
\* What requestUrl gives scrape() for a URL; a URL that makes scrape() return
\* before any request gets none.
NoAnswer == [received |-> FALSE]
Answers(url, pages) ==
  IF url = PageUrl
  THEN {NoAnswer}
         \cup {[received |-> TRUE, status |-> s, doc |-> d] : s \in {200, 404}, d \in pages}
  ELSE IF url = TweetUrl
  THEN {NoAnswer}
         \cup {[received |-> TRUE, status |-> s, json |-> j] :
                 s \in {200, 404},
                 j \in {[kind |-> "nojson"], [kind |-> "notweet"]}
                         \cup {[kind |-> "tweet", tweet |-> t] : t \in Tweets}}
  ELSE {NoAnswer}

NextScrape ==
  \E url \in ScrapeUrls, probe \in Responses :
    \E answer \in Answers(url, ScrapePages) : Scrape(url, answer, probe)

SpecScrape == Init /\ [][NextScrape]_vars

\* The extraction of the description and of the text, one scrape of a page
\* that is fetched: every short list of description tags, and every short
\* body of texts around the cap, in and out of script elements.
MaxMetas == 2
MaxChildren == 3
DescriptionMetas ==
  {Meta(attr, key, content) :
     attr \in {"property", "name"}, key \in {"og:description", "description"},
     content \in {NULL, "", "A", "B"}}
TextNodes ==
  {Node(tag, <<Run(ch, n)>>) :
     tag \in {"#text", "script"}, ch \in {" ", "\n", "a"},
     n \in {1, maxLength - 1, maxLength + 1}}
ExtractPages(maxMetas, maxChildren) ==
  {Page(metas, NULL, NoBody, <<>>) :
     metas \in UNION {[1..n -> DescriptionMetas] : n \in 0..maxMetas}}
    \cup {Page(<<>>, NULL, Body(children), <<>>) :
            children \in UNION {[1..n -> TextNodes] : n \in 0..maxChildren}}

NextExtract ==
  /\ scraped = NoScrape
  /\ \E doc \in ExtractPages(MaxMetas, MaxChildren) :
       Scrape(PageUrl, [received |-> TRUE, status |-> 200, doc |-> doc], "200")

SpecExtract == Init /\ [][NextExtract]_vars

\* Auto-enrich at its best: the plugin is loaded with auto-enrich on and
\* stays so, link cards with a valid URL are pasted into the canvases and
\* none is removed by the user, every read and every vault operation succeeds, and
\* every scan that a 'modify' event has started runs to its end.
PasteContents ==
  { Content(<<LinkNode("n1", ValidUrl)>>),
    Content(<<LinkNode("n2", ValidUrl)>>),
    Content(<<LinkNode("n1", ValidUrl), LinkNode("n2", ValidUrl)>>) }

\* The user pastes link cards into the canvas of a watching plugin: the
\* cards that were there stay as they are.
PasteCards(path, content) ==
  /\ phase = "loaded" /\ modifyHandler # NoRef
  /\ canvas[path].ok /\ content # canvas[path]
  /\ Len(content.nodes) > Len(canvas[path].nodes)
  /\ \A i \in 1..Len(canvas[path].nodes) : content.nodes[i] = canvas[path].nodes[i]
  /\ WriteCanvas(path, content)

NextAuto ==
  \/ Onload(TRUE)
  \/ \E path \in Docs, content \in PasteContents : PasteCards(path, content)
  \/ \E file \in Docs : Scan(file, TRUE)
  \/ \E c \in 1..MaxCalls : ScrapeReturn(c, scrape("200"))
  \/ \E c \in 1..MaxCalls : GenerateReturn(c, FALSE)
  \/ \E c \in 1..MaxCalls : CreateFolderReturn(c, TRUE)
  \/ \E c \in 1..MaxCalls, t \in Timestamps : PickPath(c, t)
  \/ \E c \in 1..MaxCalls : CreateReturn(c, TRUE)
  \/ \E c \in 1..MaxCalls : ReplaceReturn(c, TRUE)
  \/ \E c \in 1..MaxCalls : Forget(c)

SpecAuto ==
  /\ Init
  /\ [][NextAuto]_vars
  /\ \A file \in Docs : WF_vars(Scan(file, TRUE))

\* ------------------------------------------------------------------ claims
CallIds == 1..MaxCalls
AlreadyProcessingResult == Failure("Already processing")

\* The accepted calls for (path, id) that have not returned.
Running(path, id) ==
  {c \in CallIds : InPipeline(calls[c]) /\ calls[c].path = path /\ calls[c].id = id}

\* A step in which call slot c is taken by a new enrichLinkNode invocation.
Invoked(c) == calls[c].pc = "idle" /\ calls'[c].pc # "idle"

\* C1: single-flight.  An enrichLinkNode invocation made while an accepted
\* call for the same canvas path and node id has not returned comes back at
\* once with the 'Already processing' failure and does not enter the
\* pipeline; an invocation made when no such call is running enters it.  At
\* no time are two calls for the same path and id in the pipeline.
C1_SingleFlight ==
  /\ [](\A path \in Docs, id \in Ids : Cardinality(Running(path, id)) <= 1)
  /\ [][\A c \in CallIds :
          Invoked(c) =>
            IF Running(calls'[c].path, calls'[c].id) # {}
            THEN /\ calls'[c].pc = "done"
                 /\ ~calls'[c].accepted
                 /\ calls'[c].result = AlreadyProcessingResult
            ELSE /\ calls'[c].pc = "scrape"
                 /\ calls'[c].accepted]_vars

\* One call is suspended in the scrape and a second one for the same node
\* has been rejected.
C1_Witness ==
  \E c, d \in CallIds :
    /\ c # d
    /\ calls[c].pc = "scrape"
    /\ calls[d].pc = "done" /\ calls[d].result = AlreadyProcessingResult
    /\ calls[d].path = calls[c].path /\ calls[d].id = calls[c].id

\* C2: the in-flight set holds exactly the keys of the accepted calls that
\* have not returned, one call per key; it is empty when no call is running,
\* whatever way the earlier calls ended.
C2_InFlightSet ==
  /\ processingNodes =
       {NodeKey(calls[c].path, calls[c].id) : c \in {d \in CallIds : InPipeline(calls[d])}}
  /\ \A path \in Docs, id \in Ids :
       NodeKey(path, id) \in processingNodes => Cardinality(Running(path, id)) = 1
  /\ (\A c \in CallIds : ~InPipeline(calls[c])) => processingNodes = {}

\* A call has failed at the note creation, another at the canvas update, and
\* the set is empty.
C2_Witness ==
  /\ processingNodes = {}
  /\ \E c, d \in CallIds :
       /\ calls[c].pc = "done" /\ calls[c].accepted
       /\ calls[c].result = Failure("File already exists.")
       /\ calls[d].pc = "done" /\ calls[d].accepted
       /\ calls[d].result = Failure("Failed to update canvas")

\* A step in which an invocation returns without ever being suspended (the
\* guard's return).
Rejected(c) == calls[c].pc = "idle" /\ calls'[c].pc = "done"

\* C3: a guard-rejected call has no side effect.  The step that rejects it
\* leaves the in-flight set (with the key of the running call in it), the
\* vault (canvases, notes, folder), the pending scans, the monitor and every
\* other call as they were; the rejected call holds no metadata, no
\* generated text and no note path, only its 'Already processing' result.
C3_RejectionFrame ==
  [][\A c \in CallIds :
       Rejected(c) =>
         /\ calls'[c].result = AlreadyProcessingResult
         /\ calls'[c].metadata = EmptyMetadata
         /\ calls'[c].aiDescription = NULL
         /\ calls'[c].notePath = NULL
         /\ processingNodes' = processingNodes
         /\ NodeKey(calls'[c].path, calls'[c].id) \in processingNodes'
         /\ \A d \in CallIds \ {c} : calls'[d] = calls[d]
         /\ UNCHANGED <<vaultVars, scans, monitorVars, pluginVars>>]_vars

\* A call has been rejected while the call that owns the key is suspended in
\* the canvas update, its note already created.
C3_Witness ==
  \E c, d \in CallIds :
    /\ calls[c].pc = "replace" /\ calls[c].notePath \in notes
    /\ calls[d].pc = "done" /\ ~calls[d].accepted
    /\ calls[d].path = calls[c].path /\ calls[d].id = calls[c].id
    /\ NodeKey(calls[c].path, calls[c].id) \in processingNodes

\* ---- the monitor
\* A step in which a checkForNewLinks of file runs from its read to its end.
ScanStep(file) == scans'[file] < scans[file]

\* The ids of the link nodes of a content, as a set and in document order.
LinkIds(content) ==
  {content.nodes[i].id : i \in {j \in 1..Len(content.nodes) : content.nodes[j].type = "link"}}
RECURSIVE LinkIdSeq(_)
LinkIdSeq(nodes) ==
  IF nodes = <<>> THEN <<>>
  ELSE IF Head(nodes).type = "link"
       THEN <<Head(nodes).id>> \o LinkIdSeq(Tail(nodes))
       ELSE LinkIdSeq(Tail(nodes))
Range(seq) == {seq[i] : i \in 1..Len(seq)}
Baseline(file) == IF file \in DOMAIN seenNodes THEN seenNodes[file] ELSE {}

\* C4: cold-start suppression.  A scan that succeeds on a document not in
\* initializedCanvases calls the new-link callback zero times, whatever link
\* nodes the content has; it stores the content's link-node ids as the
\* baseline and marks the document initialized.
C4_ColdStart ==
  [][\A file \in Docs :
       (ScanStep(file) /\ scanOk' /\ file \notin initializedCanvases) =>
         /\ emitted' = <<>>
         /\ file \in DOMAIN seenNodes'
         /\ seenNodes'[file] = LinkIds(canvas[file])
         /\ initializedCanvases' = initializedCanvases \cup {file}]_vars

\* Only a.canvas has been scanned, its two link nodes are the baseline, and
\* the scan reported nothing.
C4_Witness ==
  /\ initializedCanvases = {"a.canvas"}
  /\ DOMAIN seenNodes = {"a.canvas"}
  /\ seenNodes["a.canvas"] = Ids
  /\ LinkIds(canvas["a.canvas"]) = Ids
  /\ scanOk /\ emitted = <<>>
  /\ scans["a.canvas"] = 0

\* C5, as claimed: an id is reported at most once over all scans of a
\* document, and never by the scan that establishes the baseline.
C5_ExactlyOnce ==
  [][\A file \in Docs :
       ScanStep(file) =>
         /\ \A id \in Range(emitted') : id \notin reported[file]
         /\ (file \notin initializedCanvases => emitted' = <<>>)]_vars

\* C5, amended: a scan reports an id only when the document is initialized
\* and the id is absent from the stored baseline; it then reports it exactly
\* once and leaves it in the baseline.  So an id is reported at most once for
\* every time it enters the baseline, and never by a baseline scan.
C5_OncePerEntry ==
  [][\A file \in Docs :
       ScanStep(file) =>
         \A id \in Range(emitted') :
           /\ file \in initializedCanvases
           /\ id \notin Baseline(file)
           /\ Cardinality({i \in 1..Len(emitted') : emitted'[i] = id}) = 1
           /\ id \in seenNodes'[file]]_vars

\* n1 appeared after the baseline scan, has just been reported, and is in
\* the baseline now.
C5_Witness ==
  /\ emitted = <<"n1">>
  /\ "n1" \in reported["a.canvas"]
  /\ "a.canvas" \in initializedCanvases
  /\ "n1" \in seenNodes["a.canvas"]

\* C6: a scan that succeeds on an initialized document calls the new-link
\* callback for exactly the link-node ids of the content that are not in the
\* stored baseline, once each, in the order of the document's node list.
C6_NewInOrder ==
  [][\A file \in Docs :
       (ScanStep(file) /\ scanOk' /\ file \in initializedCanvases) =>
         emitted' = SelectSeq(LinkIdSeq(canvas[file].nodes),
                              LAMBDA id : id \notin Baseline(file))]_vars

\* Both ids were new in one scan and were reported n2 first, as the document
\* lists them.
C6_Witness ==
  /\ emitted = <<"n2", "n1">>
  /\ \E file \in Docs :
       /\ file \in initializedCanvases
       /\ canvas[file].ok /\ LinkIdSeq(canvas[file].nodes) = <<"n2", "n1">>

\* C7: after a scan that succeeds, first or later, the stored baseline of the
\* document is exactly the set of ids of the link nodes of the scanned
\* content.
C7_BaselineReplaced ==
  [][\A file \in Docs :
       (ScanStep(file) /\ scanOk') =>
         /\ file \in DOMAIN seenNodes'
         /\ seenNodes'[file] = LinkIds(canvas[file])]_vars

\* n1 was reported once (so it was in the baseline), and the baseline has
\* dropped it since.
C7_Witness ==
  /\ "n1" \in reported["a.canvas"]
  /\ "a.canvas" \in initializedCanvases
  /\ seenNodes["a.canvas"] = {"n2"}
  /\ scanOk /\ emitted = <<>>

\* C8: a scan whose read rejects or whose content does not parse reports
\* nothing and leaves seenNodes and initializedCanvases as they were, for
\* every document (so the next scan compares against the same baseline, or
\* cold-starts if there is none).
C8_FailedScan ==
  [][\A file \in Docs :
       (ScanStep(file) /\ (~scanOk' \/ ~canvas[file].ok)) =>
         /\ ~scanOk'
         /\ emitted' = <<>>
         /\ seenNodes' = seenNodes
         /\ initializedCanvases' = initializedCanvases
         /\ UNCHANGED <<processingNodes, calls>>]_vars

\* The scan of a.canvas, whose content does not parse, has failed; its
\* baseline of two ids is kept; b.canvas was never written.
C8_Witness ==
  /\ ~scanOk
  /\ ~canvas["a.canvas"].ok
  /\ scans["a.canvas"] = 0
  /\ "a.canvas" \in initializedCanvases
  /\ seenNodes["a.canvas"] = Ids
  /\ canvas["b.canvas"] = Content(<<>>)
  /\ "b.canvas" \notin initializedCanvases

\* C9, as claimed: once stopWatching has returned (modifyHandler is null), a
\* written canvas starts no scan.
C9_StopReleasesAll ==
  [][modifyHandler = NoRef => \A file \in Docs : scans'[file] <= scans[file]]_vars

\* C10: clearCache(path) removes the baseline and the initialized flag of
\* that document and leaves every other document's as they were;
\* clearCache() removes them for all documents.
C10_ClearCache ==
  [][\A canvasPath \in Docs \cup {NULL} :
       ClearCache(canvasPath) =>
         IF canvasPath = NULL
         THEN DOMAIN seenNodes' = {} /\ initializedCanvases' = {}
         ELSE /\ canvasPath \notin DOMAIN seenNodes'
              /\ canvasPath \notin initializedCanvases'
              /\ \A other \in Docs \ {canvasPath} :
                   /\ other \in initializedCanvases' <=> other \in initializedCanvases
                   /\ other \in DOMAIN seenNodes' <=> other \in DOMAIN seenNodes
                   /\ other \in DOMAIN seenNodes => seenNodes'[other] = seenNodes[other]]_vars

\* a.canvas, scanned before (its write was followed by a scan), is untracked
\* again while b.canvas keeps its baseline.
C10_Witness ==
  /\ "a.canvas" \notin initializedCanvases
  /\ "a.canvas" \notin DOMAIN seenNodes
  /\ LinkIds(canvas["a.canvas"]) = Ids
  /\ scans["a.canvas"] = 0
  /\ handlers # {}
  /\ scanOk
  /\ "b.canvas" \in initializedCanvases
  /\ seenNodes["b.canvas"] = Ids

\* ---- the transformer
\* The ids of the nodes of a content.
NodeIds(content) == {content.nodes[i].id : i \in 1..Len(content.nodes)}
\* The edges of a content whose two endpoints are ids of its nodes.
Resolved(content) ==
  {i \in 1..Len(content.edges) :
     content.edges[i].fromNode \in NodeIds(content) /\ content.edges[i].toNode \in NodeIds(content)}

\* C11: a replaceLinkWithFile that finds a link node under linkNodeId puts a
\* file node for the note in its place in the node list, with the same id,
\* x, y, width and height, and the same color when the link node had one
\* (none otherwise); the list keeps its length, the edges are the same, and
\* every edge that had both endpoints among the node ids still has.
C11_ReplacePreserves ==
  [][\A linkNodeId \in Ids, notePath \in NotePaths :
       LET before == canvas["a.canvas"]
           after == canvas'["a.canvas"]
       IN (/\ ReplaceLinkWithFile("a.canvas", linkNodeId, notePath, TRUE)
           /\ before.ok
           /\ \E i \in 1..Len(before.nodes) :
                before.nodes[i].id = linkNodeId /\ before.nodes[i].type = "link")
          =>
          /\ after.ok
          /\ Len(after.nodes) = Len(before.nodes)
          /\ \A i \in 1..Len(before.nodes) :
               /\ after.nodes[i].id = before.nodes[i].id
               /\ after.nodes[i].x = before.nodes[i].x
               /\ after.nodes[i].y = before.nodes[i].y
               /\ after.nodes[i].width = before.nodes[i].width
               /\ after.nodes[i].height = before.nodes[i].height
               /\ Truthy(before.nodes[i].color) =>
                    after.nodes[i].color = before.nodes[i].color
               /\ before.nodes[i].id = linkNodeId =>
                    /\ after.nodes[i].type = "file"
                    /\ ~Truthy(before.nodes[i].color) => after.nodes[i].color = NULL
                    /\ after.nodes[i].file = notePath
                    /\ DOMAIN after.nodes[i] =
                         {"id", "type", "file", "x", "y", "width", "height", "color"}
          /\ NodeIds(after) = NodeIds(before)
          /\ Resolved(before) \subseteq Resolved(after)]_vars

\* The second card, colored and away from the default box, has become a file
\* card of the note where it was, and the edge between the two cards has
\* both its endpoints.
C11_Witness ==
  /\ lastReplace = [id |-> "n2", returned |-> TRUE]
  /\ canvas["a.canvas"].ok
  /\ Len(canvas["a.canvas"].nodes) = 2
  /\ canvas["a.canvas"].nodes[2] =
       FileCard("n2", "Canvas Notes/Example.md", Box(120, 60, 250, 60), "1")
  /\ canvas["a.canvas"].edges = <<Edge("e1", "n1", "n2")>>
  /\ Resolved(canvas["a.canvas"]) = {1}

\* C12: a replaceLinkWithFile changes at most the node whose id is
\* linkNodeId.  Every node with another id is the same at the same place in
\* the list, every edge is the same, and when no node has the id, or the
\* node that has it is not a link node, or the call fails, the content of the
\* file is what it was.
C12_ReplaceFrame ==
  [][\A linkNodeId \in Ids, notePath \in NotePaths, io \in BOOLEAN :
       LET before == canvas["a.canvas"]
           after == canvas'["a.canvas"]
       IN ReplaceLinkWithFile("a.canvas", linkNodeId, notePath, io) =>
            /\ after.ok = before.ok
            /\ after.edges = before.edges
            /\ Len(after.nodes) = Len(before.nodes)
            /\ \A i \in 1..Len(before.nodes) :
                 before.nodes[i].id # linkNodeId => after.nodes[i] = before.nodes[i]
            /\ (\/ ~io
                \/ ~before.ok
                \/ linkNodeId \notin NodeIds(before)
                \/ \E i \in 1..Len(before.nodes) :
                     before.nodes[i].id = linkNodeId /\ before.nodes[i].type # "link")
               => after = before]_vars

\* replaceLinkWithFile was called for n1, which is the user's file card, and
\* returned true; the card is still the user's, the colored link card after
\* it and the two edges are there.
C12_Witness ==
  /\ lastReplace = [id |-> "n1", returned |-> TRUE]
  /\ canvas["a.canvas"] =
       CanvasData(<<FileCard("n1", "note.md", DefaultBox, "1"),
                    LinkCard("n2", ValidUrl, Box(120, 60, 250, 60), "")>>,
                  <<Edge("e1", "n2", "n1"), Edge("e2", "n1", "gone")>>)

\* ---- the pipeline's failures
\* The content has a file node of the given id for the given file.
HasFileNode(content, id, file) ==
  /\ content.ok
  /\ \E i \in 1..Len(content.nodes) :
       /\ content.nodes[i].id = id
       /\ content.nodes[i].type = "file"
       /\ content.nodes[i].file = file

\* C13: a generation that throws does not abort the enrichment.  The call
\* goes on to the note creation with, as its text, the scraped description or
\* 'No description available.' when there is none; the note that is created
\* carries the text the call holds; and a call that holds such a text returns
\* success with the note's path when replaceLinkWithFile returns true.
C13_GenerationFallback ==
  [][\A c \in CallIds :
       /\ GenerateReturn(c, TRUE) =>
            /\ calls'[c].pc \in {"createFolder", "folderReady"}
            /\ calls'[c].aiDescription =
                 (IF calls[c].metadata.description = NULL
                  THEN "No description available."
                  ELSE calls[c].metadata.description)
       /\ (calls[c].pc = "create" /\ calls'[c].pc = "replace") =>
            /\ calls[c].notePath \in notes'
            /\ noteText'[calls[c].notePath].description = calls[c].aiDescription
       /\ (/\ calls[c].pc = "replace" /\ calls'[c].pc = "done"
           /\ calls[c].aiDescription # GeneratedText
           /\ ReplaceReturn(c, TRUE) /\ canvas[calls[c].path].ok) =>
            calls'[c].result = Success(calls[c].notePath)]_vars

\* The page had no description and the generation threw: the call has
\* returned success, its note carries the placeholder, and the card n1 is a
\* file card of that note.
C13_Witness ==
  \E c \in CallIds :
    /\ calls[c].pc = "done" /\ calls[c].result.success
    /\ calls[c].result.notePath \in notes
    /\ noteText[calls[c].result.notePath].description = Placeholder
    /\ HasFileNode(canvas[calls[c].path], calls[c].id, calls[c].result.notePath)

\* C14, as claimed: when the fetch of the page fails (a status other than
\* 200, or a transport failure), the call returns a failure result at once:
\* it does not go on to the generation, creates no note and leaves the canvas
\* alone.
C14_FetchFailureAborts ==
  [][\A c \in CallIds, response \in Responses \ {"200"} :
       ScrapeReturn(c, scrape(response)) =>
         /\ calls'[c].pc = "done"
         /\ ~calls'[c].result.success
         /\ calls'[c].result.error # NULL]_vars

\* The content has a link node of the given id.
HasLinkNode(content, id) ==
  /\ content.ok
  /\ \E i \in 1..Len(content.nodes) :
       content.nodes[i].id = id /\ content.nodes[i].type = "link"

\* C15, as claimed: a call whose canvas update finds no node of its id, or a
\* node that is not a link node, or whose write fails, returns a failure
\* result.
C15_MutationFailureSurfaced ==
  [][\A c \in CallIds :
       (/\ calls[c].pc = "replace" /\ calls'[c].pc = "done"
        /\ ~HasLinkNode(canvas[calls[c].path], calls[c].id)) =>
         ~calls'[c].result.success]_vars

\* The suspensions of enrichLinkNode in the order of its text, and from
\* which of them a call can come to each.
StepOrder ==
  { <<"idle", "scrape">>, <<"idle", "done">>,
    <<"scrape", "generate">>,
    <<"generate", "createFolder">>, <<"generate", "folderReady">>,
    <<"createFolder", "folderReady">>, <<"createFolder", "done">>,
    <<"folderReady", "create">>,
    <<"create", "replace">>, <<"create", "done">>,
    <<"replace", "done">>,
    <<"done", "idle">> }

\* C16: within one call the steps are scrape, then generate, then the canvas
\* update.  A call moves from one suspension to the next one of the text
\* only: the generation starts in the step in which the scrape returns, and
\* the canvas update starts after the generation has returned or thrown (the
\* call holds its text by then) and the note is created.  The plugin writes
\* the canvas only in the step in which a call's canvas update finishes.
C16_StepOrder ==
  /\ [][\A c \in CallIds :
          /\ calls'[c].pc # calls[c].pc => <<calls[c].pc, calls'[c].pc>> \in StepOrder
          /\ calls'[c].pc = "generate" => calls[c].pc \in {"scrape", "generate"}
          /\ calls'[c].pc = "replace" => calls[c].pc \in {"create", "replace"}]_vars
  /\ [][(calls' # calls /\ canvas' # canvas) =>
          \E c \in CallIds : calls[c].pc = "replace" /\ calls'[c].pc = "done"]_vars
  /\ [](\A c \in CallIds :
          /\ calls[c].pc \in {"scrape", "generate"} => calls[c].aiDescription = NULL
          /\ calls[c].pc \in {"createFolder", "folderReady", "create", "replace"} =>
               calls[c].aiDescription # NULL
          /\ calls[c].pc = "replace" => calls[c].notePath \in notes)

\* A call is suspended in the canvas update with the scraped metadata, the
\* generated text and its note created, and the card is still a link card.
C16_Witness ==
  \E c \in CallIds :
    /\ calls[c].pc = "replace"
    /\ calls[c].metadata = FullMetadata
    /\ calls[c].aiDescription = GeneratedText
    /\ calls[c].notePath \in notes
    /\ HasLinkNode(canvas[calls[c].path], calls[c].id)

\* ---- the batches
\* C17: a batch is sequential.  While it runs, the only enrichLinkNode call
\* there is is the one for the node at the loop's position; the call for the
\* next node is made in a step before which the awaited call has returned;
\* the loop's position only moves forward by one; and the canvas is updated
\* only by the call for the node at the loop's position, so in the order of
\* the enumeration.
C17_BatchSequential ==
  /\ [](batch.pc = "run" =>
          /\ batch.i \in 1..Len(batch.nodes)
          /\ batch.call \in CallIds
          /\ calls[batch.call].pc # "idle"
          /\ calls[batch.call].path = batch.path
          /\ calls[batch.call].id = batch.nodes[batch.i].id
          /\ \A c \in CallIds \ {batch.call} : calls[c].pc = "idle")
  /\ [][(batch.pc = "run" /\ batch' # batch) =>
          /\ calls[batch.call].pc = "done"
          /\ \A c \in CallIds : ~InPipeline(calls[c])
          /\ batch'.pc = "run" =>
               /\ batch'.nodes = batch.nodes
               /\ batch'.i = batch.i + 1]_vars
  /\ [][\A c \in CallIds :
          (calls[c].pc = "replace" /\ calls'[c].pc = "done" /\ canvas' # canvas) =>
            /\ batch.pc = "run" /\ c = batch.call
            /\ HasFileNode(canvas'[batch.path], batch.nodes[batch.i].id,
                           calls'[c].result.notePath)]_vars

\* The batch is at its second node, whose call is suspended in the canvas
\* update; the first node of the enumeration is a file card of a created note
\* already and the second is still a link card.
C17_Witness ==
  /\ batch.pc = "run" /\ batch.i = 2 /\ Len(batch.nodes) = 2
  /\ calls[batch.call].pc = "replace"
  /\ \E notePath \in notes : HasFileNode(canvas[batch.path], batch.nodes[1].id, notePath)
  /\ HasLinkNode(canvas[batch.path], batch.nodes[2].id)

\* The nodes of a list that are link nodes with an http: or https: URL.
HttpLinks(nodes) ==
  SelectSeq(nodes, LAMBDA n : n.type = "link" /\ UrlProtocol(n.url) \in {"http:", "https:"})

\* C18: enrichAllLinksInCanvas enumerates exactly the link nodes of the file
\* whose URL parses with protocol http: or https:, in the file's order, and
\* starts the pipeline for none when there is none.  While it runs, every
\* call there is and every in-flight key is for an enumerated node; a link
\* node with another target ('not a url', an ftp: URL) is in no call and no
\* key.
C18_BatchFilter ==
  /\ [][(batch.pc = "read" /\ batch' # batch) =>
          LET file == canvas[batch.path]
              valid == IF file.ok THEN HttpLinks(file.nodes) ELSE <<>>
          IN IF batch'.pc = "run"
             THEN /\ batch'.nodes = valid
                  /\ batch'.i = 1
                  /\ processingNodes' = {NodeKey(batch.path, valid[1].id)}
             ELSE /\ batch'.pc = "idle"
                  /\ (GetLinkNodesReturn(TRUE) /\ file.ok) => valid = <<>>
                  /\ UNCHANGED <<calls, processingNodes>>]_vars
  /\ [](batch.fn = "all" =>
          /\ \A k \in 1..Len(batch.nodes) :
               /\ batch.nodes[k].type = "link"
               /\ UrlProtocol(batch.nodes[k].url) \in {"http:", "https:"}
          /\ \A c \in CallIds :
               calls[c].pc # "idle" =>
                 \E k \in 1..Len(batch.nodes) :
                   calls[c].id = batch.nodes[k].id /\ calls[c].url = batch.nodes[k].url
          /\ processingNodes \subseteq
               {NodeKey(batch.path, batch.nodes[k].id) : k \in 1..Len(batch.nodes)})

\* enrichAllLinksInCanvas runs on the canvas with A (https://example.com) and
\* B ('not a url'): it has enumerated A alone, A's call has returned and
\* nothing is in flight.
C18_Witness ==
  /\ batch.fn = "all" /\ batch.pc = "run"
  /\ canvas["a.canvas"].ok
  /\ Len(canvas["a.canvas"].nodes) = 2
  /\ canvas["a.canvas"].nodes[2] = LinkNode("n2", InvalidUrl)
  /\ batch.nodes = <<LinkNode("n1", ValidUrl)>>
  /\ calls[batch.call].pc = "done" /\ calls[batch.call].result.success
  /\ processingNodes = {}

\* ---- auto-enrich
\* The canvas holds a link card of the given id with an http/https URL,
\* pasted while the plugin watches with auto-enrich on.
Pasted(path, id) ==
  /\ phase = "loaded" /\ settings.autoEnrichOnPaste /\ modifyHandler # NoRef
  /\ canvas[path].ok
  /\ \E i \in 1..Len(canvas[path].nodes) :
       /\ canvas[path].nodes[i].id = id
       /\ canvas[path].nodes[i].type = "link"
       /\ UrlProtocol(canvas[path].nodes[i].url) \in {"http:", "https:"}

\* An enrichLinkNode call for the card has been made.
Attempted(path, id) ==
  \E c \in CallIds : calls[c].pc # "idle" /\ calls[c].path = path /\ calls[c].id = id

\* C19, as claimed: every link card with a valid URL pasted into a canvas
\* while the monitor watches with auto-enrich on eventually has an enrichment
\* attempt started for it.
C19_AutoEnrich ==
  \A path \in Docs, id \in Ids : Pasted(path, id) ~> Attempted(path, id)

\* ---- the generation backends
\* C20, as claimed: every backend's generate throws on a status other than
\* 200, on a payload that is missing or empty and on a transport failure,
\* and the text it returns is never empty.
C20_GenerateContract ==
  generated # NoGeneration =>
    LET response == generated.response
        outcome == generated.outcome
    IN /\ ~response.received => outcome.threw
       /\ (response.received /\ response.status # 200) => outcome.threw
       /\ (response.received /\ response.body.kind # "text") => outcome.threw
       /\ (response.received /\ response.body.kind = "text"
             /\ response.body.text = <<>>) => outcome.threw
       /\ ~outcome.threw => outcome.text # <<>>


\* ---- the backends' other methods
\* C21, as claimed: getModels of every backend never throws; on a status
\* other than 200, on a malformed payload and on a transport failure it
\* returns a list, the single configured model identifier.
C21_GetModelsNeverThrows ==
  probed.fn = "getModels" =>
    LET response == probed.response
        outcome == probed.outcome
        failed == \/ ~response.received
                  \/ response.status # 200
                  \/ response.body.kind # "list"
    IN /\ ~outcome.threw
       /\ (failed /\ probed.provider # "claude") => outcome.models = <<probed.model>>

\* C22: checkConnection of every backend returns, and it returns true
\* exactly when the probe request is answered with status 200; any other
\* status and a transport failure give false.
C22_CheckConnection ==
  probed.fn = "checkConnection" =>
    /\ ~probed.outcome.threw
    /\ probed.outcome.connected =
         (probed.response.received /\ probed.response.status = 200)

\* A backend's probe is answered with a status other than 200 and
\* checkConnection returns false.
C22_Witness ==
  /\ probed.fn = "checkConnection"
  /\ probed.provider = "claude"
  /\ probed.response.received /\ probed.response.status = 500
  /\ probed.outcome = [threw |-> FALSE, connected |-> FALSE]


\* ---- the scraper
\* A scrape of a page whose request was answered with status 200.
Fetched ==
  scraped.url = PageUrl /\ scraped.answer.received /\ scraped.answer.status = 200

\* C23: scrape returns for every URL and every answer of the network; for a
\* malformed URL, a transport failure, a status other than 200 of the page or
\* of the social network's API, and an API answer without a post object, what
\* it returns is the record with the source url, with title, description,
\* ogImage, siteName and favicon null and with the empty textContent.
C23_ScrapeDegrades ==
  scraped.url # NULL =>
    LET url == scraped.url
        answer == scraped.answer
        failed == \/ url = InvalidUrl
                  \/ ~answer.received
                  \/ answer.status # 200
                  \/ url = TweetUrl /\ answer.json.kind = "notweet"
    IN /\ scraped.metadata.url = url
       /\ failed =>
            scraped.metadata =
              [url |-> url, title |-> NULL, description |-> NULL, ogImage |-> NULL,
               siteName |-> NULL, favicon |-> NULL, textContent |-> <<>>]

\* The API answers with status 200 and no post object, and the scrape of the
\* post's URL returns the empty record.
C23_Witness ==
  /\ scraped.url = TweetUrl
  /\ scraped.answer.received /\ scraped.answer.status = 200
  /\ scraped.answer.json.kind = "notweet"
  /\ scraped.metadata.title = NULL /\ scraped.metadata.favicon = NULL
  /\ scraped.metadata.textContent = <<>>

\* C24: the description extracted from a fetched page is the og:description
\* candidate when that is not empty, else the description candidate when that
\* is not empty, and null exactly when both are absent or empty (a candidate
\* being what extractMeta finds for the key); for a page whose only meta tags
\* are standard description tags with a value, it is that value.
C24_DescriptionChain ==
  Fetched =>
    LET doc == scraped.answer.doc
        og == extractMeta(doc, "og:description")
        standard == extractMeta(doc, "description")
        description == scraped.metadata.description
        onlyStandard ==
          /\ doc.metas # <<>>
          /\ \A i \in DOMAIN doc.metas :
               doc.metas[i].attr = "name" /\ doc.metas[i].key = "description"
    IN /\ Truthy(og) => description = og
       /\ (~Truthy(og) /\ Truthy(standard)) => description = standard
       /\ description = NULL <=> (~Truthy(og) /\ ~Truthy(standard))
       /\ (onlyStandard /\ Truthy(doc.metas[1].content)) =>
            description = doc.metas[1].content

\* A page with only a standard description tag is scraped and the
\* description is the tag's value.
C24_Witness ==
  /\ Fetched
  /\ scraped.answer.doc.metas = <<Meta("name", "description", "A")>>
  /\ scraped.metadata.description = "A"

\* C25: the ogImage of the record a scrape returns is null or the URL that
\* scrape's HEAD request was sent for and answered with status 200; when the
\* HEAD request is answered with 404 or fails, the ogImage is null.
C25_ImageValidated ==
  scraped.url # NULL =>
    /\ scraped.metadata.ogImage # NULL =>
         scraped.probe = "200" /\ scraped.metadata.ogImage = scraped.image
    /\ scraped.probe \in {"404", "throws"} => scraped.metadata.ogImage = NULL

\* A page names a cover image, the HEAD request for it is answered with 404,
\* and the record has no ogImage.
C25_Witness ==
  /\ Fetched
  /\ extractMeta(scraped.answer.doc, "og:image") = "//cdn.example.com/i.png"
  /\ scraped.image = ImageUrl /\ scraped.probe = "404"
  /\ scraped.metadata.ogImage = NULL

\* C26, as claimed: two scrapes in a row of the same URL that get the same
\* raw content return the same record.
C26_ExtractionIdempotent ==
  [][(scraped.url # NULL /\ scraped'.url = scraped.url
        /\ scraped'.answer = scraped.answer)
       => scraped'.metadata = scraped.metadata]_vars

\* C27: the textContent of a fetched page is the text of the body's content,
\* whitespace collapsed and trimmed, when that has at most maxLength
\* characters; otherwise it is the first maxLength characters of it followed
\* by '...'; without a body it is empty.
C27_TextBounded ==
  Fetched =>
    LET doc == scraped.answer.doc
        text == scraped.metadata.textContent
        bodyText == IF doc.body = NoBody THEN <<>>
                    ELSE TrimRuns(CollapseWhitespace(ContentText(doc.body[1])))
    IN /\ doc.body = NoBody => text = <<>>
       /\ TextLength(bodyText) <= maxLength => text = bodyText
       /\ TextLength(bodyText) > maxLength =>
            /\ TextLength(text) = maxLength + 3
            /\ Substring(text, maxLength) = Substring(bodyText, maxLength)
            /\ text[Len(text)] = Run(".", 3)
       /\ \A i \in DOMAIN text :
            /\ text[i].ch # "\n"
            /\ text[i].ch = " " => text[i].n = 1

\* A body whose text has maxLength + 1 characters, the last but one a space,
\* is extracted as its first maxLength characters and the marker.
C27_Witness ==
  /\ Fetched
  /\ scraped.answer.doc.body =
       Body(<<Node("#text", <<Run("a", maxLength - 1)>>), Node("#text", <<Run(" ", 1)>>),
              Node("#text", <<Run("a", 1)>>)>>)
  /\ scraped.metadata.textContent = <<Run("a", maxLength - 1), Run(" ", 1), Run(".", 3)>>


\* ---- notes
\* C28, as claimed: when vault.create finishes for the path a call chose,
\* no other call has created that path meanwhile, and when vault.createFolder
\* finishes, no other call has created the notes folder meanwhile.
C28_UniquePath ==
  [][\A c \in CallIds :
       /\ CreateReturn(c, TRUE) => calls[c].notePath \notin notes
       /\ CreateFolderReturn(c, TRUE) => ~folderExists]_vars

\* C29, as claimed: when a call returns from the canvas update, with success
\* or with failure, the note it has created is the file of the file node with
\* the call's node id in the canvas.
C29_NoOrphanNotes ==
  [][\A c \in CallIds :
       (calls[c].pc = "replace" /\ calls'[c].pc = "done") =>
         HasFileNode(canvas'[calls[c].path], calls[c].id, calls[c].notePath)]_vars

\* ---- the wiring
\* C30, as claimed: the vault holds at most one 'modify' subscription of the
\* monitor.
C30_OneSubscription == Cardinality(handlers) <= 1


\* Auto-enrich with its failures, and with the record of what the scans have
\* reported: link cards are pasted into the canvases of a watching plugin and
\* none is removed by the user; the fetch, the generation and the vault's
\* operations fail or not.
NextLoop ==
  \/ Onload(TRUE)
  \/ \E path \in Docs, content \in PasteContents : PasteCards(path, content)
  \/ \E file \in Docs, io \in BOOLEAN : ScanReported(file, io)
  \/ \E c \in 1..MaxCalls, response \in Responses : ScrapeReturn(c, scrape(response))
  \/ \E c \in 1..MaxCalls, thrown \in BOOLEAN : GenerateReturn(c, thrown)
  \/ \E c \in 1..MaxCalls, io \in BOOLEAN : CreateFolderReturn(c, io)
  \/ \E c \in 1..MaxCalls, t \in Timestamps : PickPath(c, t)
  \/ \E c \in 1..MaxCalls, io \in BOOLEAN : CreateReturn(c, io)
  \/ \E c \in 1..MaxCalls, io \in BOOLEAN : ReplaceReturn(c, io)
  \/ \E c \in 1..MaxCalls : Forget(c)

SpecLoop == Init /\ [][NextLoop]_vars

\* The keys of the in-flight set: canvas paths and node ids are strings of the
\* vault and of the canvas files, and ':' may occur in both.  The menu item
\* is used on cards of two canvases; the calls run until the note's creation
\* fails.
KeyDocs == {"a.canvas", "a.canvas:b.canvas"}
KeyIds == {"n1", "b.canvas:n1"}

NextKeys ==
  \/ Onload(FALSE)
  \/ \E path \in KeyDocs, id \in KeyIds : MenuEnrich(path, LinkNode(id, ValidUrl))
  \/ \E c \in 1..MaxCalls : ScrapeReturn(c, FullMetadata)
  \/ \E c \in 1..MaxCalls, thrown \in BOOLEAN : GenerateReturn(c, thrown)
  \/ \E c \in 1..MaxCalls : CreateFolderReturn(c, TRUE)
  \/ \E c \in 1..MaxCalls, t \in Timestamps : PickPath(c, t)
  \/ \E c \in 1..MaxCalls : CreateReturn(c, FALSE)
  \/ \E c \in 1..MaxCalls : Forget(c)

SpecKeys == Init /\ [][NextKeys]_vars

\* Settings edited while calls run: the provider and the prompt are changed in
\* the settings tab and saved while menu-started calls on a card of one
\* canvas go through the pipeline, one at a time.
ProviderChoices == {"ollama", "claude"}
PromptTexts == {"", "List the key points."}

NextSnapshot ==
  \/ Onload(FALSE)
  \/ /\ \A c \in 1..MaxCalls : calls[c].pc = "idle"
     /\ MenuEnrich("a.canvas", LinkNode("n1", ValidUrl))
  \/ \E value \in ProviderChoices : ChangeProvider(value)
  \/ \E value \in PromptTexts : ChangePrompt(value)
  \/ SaveSettingsResume
  \/ \E c \in 1..MaxCalls : ScrapeReturn(c, FullMetadata)
  \/ \E c \in 1..MaxCalls, thrown \in BOOLEAN : GenerateReturn(c, thrown)
  \/ \E c \in 1..MaxCalls : CreateFolderReturn(c, TRUE)
  \/ \E c \in 1..MaxCalls, t \in Timestamps : PickPath(c, t)
  \/ \E c \in 1..MaxCalls, io \in BOOLEAN : CreateReturn(c, io)
  \/ \E c \in 1..MaxCalls, io \in BOOLEAN : ReplaceReturn(c, io)
  \/ \E c \in 1..MaxCalls : Forget(c)

SpecSnapshot == Init /\ [][NextSnapshot]_vars

\* The callback's gate: the auto-enrich toggle is switched and saved while
\* one canvas is written and scanned; its card n1 has an https URL and its
\* card n2 an ftp URL.  The calls that start run until the notes folder
\* cannot be created.
FtpUrl == "ftp://example.com/f"
GateContents ==
  {Content(<<>>), Content(<<LinkNode("n1", ValidUrl)>>), Content(<<LinkNode("n2", FtpUrl)>>),
   Content(<<LinkNode("n1", ValidUrl), LinkNode("n2", FtpUrl)>>)}

NextGate ==
  \/ Onload(TRUE)
  \/ \E auto \in BOOLEAN : ChangeSetting(auto)
  \/ SaveSettingsResume
  \/ \E content \in GateContents : WriteCanvas("a.canvas", content)
  \/ Scan("a.canvas", TRUE)
  \/ \E c \in 1..MaxCalls : ScrapeReturn(c, FullMetadata)
  \/ \E c \in 1..MaxCalls : GenerateReturn(c, FALSE)
  \/ \E c \in 1..MaxCalls : CreateFolderReturn(c, FALSE)
  \/ \E c \in 1..MaxCalls : Forget(c)

SpecGate == Init /\ [][NextGate]_vars

\* The pipeline with its failures and with calls that race, under the
\* assumption that every collaborator's call comes back: what a call awaits
\* (the fetch, the generation, the folder's and the note's creation, the
\* canvas update) resolves or rejects at some time.  Menu clicks and the
\* user's edits of the canvas may stop at any time; a click is made when the
\* results of the calls that have returned have been taken.
CollaboratorReturns(c) ==
  \/ ScrapeReturn(c, FullMetadata)
  \/ \E thrown \in BOOLEAN : GenerateReturn(c, thrown)
  \/ \E io \in BOOLEAN : CreateFolderReturn(c, io)
  \/ \E t \in Timestamps : PickPath(c, t)
  \/ \E io \in BOOLEAN : CreateReturn(c, io)
  \/ \E io \in BOOLEAN : ReplaceReturn(c, io)

TerminateContents ==
  {Content(<<LinkNode("n1", ValidUrl), LinkNode("n2", ValidUrl)>>), Malformed}

NextTerminate ==
  \/ Onload(FALSE)
  \/ \E id \in Ids :
       /\ \A c \in 1..MaxCalls : calls[c].pc # "done"
       /\ MenuEnrich("a.canvas", LinkNode(id, ValidUrl))
  \/ \E c \in 1..MaxCalls : CollaboratorReturns(c)
  \/ \E c \in 1..MaxCalls : Forget(c)
  \/ \E content \in TerminateContents : WriteCanvas("a.canvas", content)

SpecTerminate ==
  /\ Init
  /\ [][NextTerminate]_vars
  /\ \A c \in 1..MaxCalls : WF_vars(CollaboratorReturns(c))

\* The rewrite-in-place policy on two canvases that hold cards of the same
\* ids (one is a copy of the other): the user moves between the views and
\* starts calls from the node menu, one at a time; the generation throws or
\* not.
InPlaceContents ==
  {Content(<<LinkNode("n1", ValidUrl), LinkNode("n2", ValidUrl)>>)}

NextInPlace ==
  \/ Onload(FALSE)
  \/ \E path \in Docs \cup {NULL} : OpenView(path)
  \/ \E path \in Docs, content \in InPlaceContents : WriteCanvas(path, content)
  \/ \E id \in Ids :
       /\ \A c \in 1..MaxCalls : calls[c].pc = "idle"
       /\ MenuEnrichActive(LinkNode(id, ValidUrl))
  \/ \E c \in 1..MaxCalls : ScrapeReturn(c, FullMetadata)
  \/ \E c \in 1..MaxCalls, thrown, hasSetText \in BOOLEAN : RewriteInPlace(c, thrown, hasSetText)
  \/ \E c \in 1..MaxCalls : Forget(c)

SpecInPlace == Init /\ [][NextInPlace]_vars

\* ---- scans in progress
\* C31, as claimed: a checkForNewLinks that resumes from its read after
\* stopWatching has run leaves seenNodes and initializedCanvases as
\* stopWatching left them and calls onNewLinkNode for no node.
C31_StopNotUndone ==
  [][\A file \in Docs :
       (ScanStep(file) /\ modifyHandler = NoRef) =>
         /\ seenNodes' = seenNodes
         /\ initializedCanvases' = initializedCanvases
         /\ emitted' = <<>>]_vars


\* ---- auto-enrich and its own writes
\* C32: where the only writes to a canvas are pasted cards and the
\* enrichments' own replacements, a scan calls onNewLinkNode for no id that a
\* scan has reported before and for no id of a call that has returned,
\* with success or with failure: the scan that an enrichment's write starts
\* begins no second enrichment of the node.
C32_NoFeedback ==
  [][\A file \in Docs :
       ScanStep(file) =>
         \A id \in Range(emitted') :
           /\ id \notin reported[file]
           /\ \A c \in CallIds :
                (calls[c].pc = "done" /\ calls[c].accepted /\ calls[c].path = file)
                  => calls[c].id # id]_vars

\* The enrichment of a reported card has replaced it by a file card, and the
\* scan its write started has run and has reported nothing.
C32_Witness ==
  /\ \E c \in CallIds :
       /\ calls[c].pc = "done" /\ calls[c].result.success
       /\ calls[c].path = "a.canvas" /\ calls[c].id = "n2"
       /\ HasFileNode(canvas["a.canvas"], "n2", calls[c].result.notePath)
  /\ "n2" \in reported["a.canvas"]
  /\ scans["a.canvas"] = 0 /\ scanOk /\ emitted = <<>>
  /\ "n2" \notin seenNodes["a.canvas"]


\* ---- the in-flight key
\* C33, as claimed: an enrichLinkNode call comes back with 'Already
\* processing' only when a call for the same canvas path and the same node id
\* is in the pipeline.
C33_KeyIdentifiesPair ==
  [][\A c \in CallIds :
       Rejected(c) => Running(calls'[c].path, calls'[c].id) # {}]_vars


\* ---- settings saved while a call runs
\* C34, as claimed: the backend a call's generate is called on and the prompt
\* it is given are the plugin's backend and prompt of the time enrichLinkNode
\* was called, whatever was saved while the call was suspended in the scrape.
C34_SettingsSnapshot ==
  [][\A c \in CallIds :
       (calls[c].pc = "scrape" /\ calls'[c].pc = "generate") =>
         calls'[c].used = calls[c].configured]_vars


\* ---- the callback's gate
\* The URL of the card with the given id in a canvas content.
UrlOf(content, id) ==
  LET i == CHOOSE k \in 1..Len(content.nodes) : content.nodes[k].id = id
  IN content.nodes[i].url

\* C35: the calls a scan starts are those for the nodes it reports whose URL
\* is an http or https URL, and none when autoEnrichOnPaste is false at the
\* time of the scan; each takes the key of its canvas path and node id.  When
\* the setting is off or no reported node has such a URL the call table and
\* the in-flight set stay as they were, and a scan changes no canvas, note or
\* folder in any case.
C35_AutoEnrichGate ==
  [][\A file \in Docs :
       ScanStep(file) =>
         LET started == {c \in CallIds : Invoked(c)}
             passing == IF settings.autoEnrichOnPaste
                        THEN {id \in Range(emitted') : isValidUrl(UrlOf(canvas[file], id))}
                        ELSE {}
         IN /\ {calls'[c].id : c \in started} = passing
            /\ \A c \in started :
                 /\ calls'[c].path = file
                 /\ calls'[c].url = UrlOf(canvas[file], calls'[c].id)
            /\ processingNodes' \subseteq processingNodes \cup {NodeKey(file, id) : id \in passing}
            /\ passing = {} => (calls' = calls /\ processingNodes' = processingNodes)
            /\ UNCHANGED vaultVars]_vars

\* A scan has reported a card with an https URL while the setting was off
\* (switched off, its save not yet completed), and no call has started.
C35_Witness ==
  /\ emitted # <<>> /\ scanOk
  /\ ~settings.autoEnrichOnPaste /\ modifyHandler # NoRef
  /\ \E i \in 1..Len(emitted) : isValidUrl(UrlOf(canvas["a.canvas"], emitted[i]))
  /\ \A c \in CallIds : calls[c].pc = "idle"
  /\ processingNodes = {}


\* ---- termination
\* An accepted call with its key released, its EnrichmentResult returned.
Completed(c) ==
  /\ calls[c].pc = "done" /\ calls[c].accepted
  /\ calls[c].result # NoResult
  /\ NodeKey(calls[c].path, calls[c].id) \notin processingNodes

\* C36: when every collaborator's call comes back, a call in the pipeline
\* comes to return an EnrichmentResult (a success with the note's path or a
\* failure with a message), and its key is out of processingNodes once it
\* has; as long as the call is in the pipeline its key is in the set.
C36_Termination ==
  /\ \A c \in CallIds : InPipeline(calls[c]) ~> Completed(c)
  /\ [](\A c \in CallIds :
          InPipeline(calls[c]) => NodeKey(calls[c].path, calls[c].id) \in processingNodes)
  /\ [][\A c \in CallIds :
          (InPipeline(calls[c]) /\ ~InPipeline(calls'[c])) =>
            /\ Completed(c)'
            /\ \/ calls'[c].result.success /\ calls'[c].result.notePath \in notes
               \/ ~calls'[c].result.success /\ calls'[c].result.error # NULL]_vars

\* One call has returned the failure of its canvas update and its key is
\* released while the other call, for the other card, awaits its generation.
C36_Witness ==
  \E c, d \in CallIds :
    /\ Completed(c) /\ calls[c].result = Failure("Failed to update canvas")
    /\ calls[d].pc = "generate" /\ calls[d].id # calls[c].id
    /\ processingNodes = {NodeKey(calls[d].path, calls[d].id)}


\* ---- the rewrite-in-place policy
\* The card of the given id in a canvas content carries the text.
HasText(content, id, text) ==
  /\ content.ok
  /\ \E i \in 1..Len(content.nodes) :
       /\ content.nodes[i].id = id
       /\ "text" \in DOMAIN content.nodes[i]
       /\ content.nodes[i].text = text

\* C37, as claimed: the step in which a call of the rewrite-in-place policy
\* sets the card text and returns changes no canvas but the one the call was
\* made for, and in that canvas no node but the one of the call's id; when the
\* call returns a success, that node carries the card text.
C37_InPlaceFrame ==
  [][\A c \in CallIds :
       (calls[c].pc = "generate" /\ calls'[c].pc = "done") =>
         LET path == calls[c].path
             id == calls[c].id
         IN /\ \A p \in Docs \ {path} : canvas'[p] = canvas[p]
            /\ Len(canvas'[path].nodes) = Len(canvas[path].nodes)
            /\ \A i \in 1..Len(canvas[path].nodes) :
                 canvas[path].nodes[i].id # id => canvas'[path].nodes[i] = canvas[path].nodes[i]
            /\ calls'[c].result.success =>
                 \E text \in {CardText(calls[c].metadata, calls[c].url, d) :
                                d \in {GeneratedText, Fallback(calls[c].metadata)}} :
                   HasText(canvas'[path], id, text)]_vars

====
